---- MODULE Spec2Model ----
(***************************************************************************)
(* A model of the link-suggestion pipeline of vault-tree:                  *)
(*   - LRUCache and createCacheKey      (plugin/src/knowledge/cache.ts)    *)
(*   - KnowledgeRegistry.lookup / auto  (knowledge registry)               *)
(*   - the link insertion engine        (plugin/src/knowledge/cache.ts)    *)
(* Texts are sequences of one-character strings.                           *)
(***************************************************************************)
EXTENDS Integers, Sequences, FiniteSets, TLC

VARIABLES
    now,        \* Date.now(), in clock ticks
    cache,      \* LRUCache.cache: the Map's entries in insertion order
    stored,     \* history: key -> the last set not evicted or cleared since
    recency,    \* history: the keys held, least recently touched first
    lastOp,     \* the last LRUCache operation and what it returned
    calls,      \* the Registry.lookup invocations in flight
    content,    \* the text given to insertLinks
    suggestions,\* the suggestions given to insertLinks
    options,    \* the options given to insertLinks
    phase,      \* the linker session's position
    result,     \* the InsertResult of insertLinks(content, ...)
    rerun,      \* the InsertResult of insertLinks(result.newContent, ...)
    suggest,    \* a Registry.suggestLinks invocation
    batch,      \* a batchSuggestLinks invocation
    apply,      \* a batchApplyLinks invocation and the vault it works on
    collected,  \* a collectFilesFromFolder invocation
    parsed      \* a parseResponse invocation

vars == <<now, cache, stored, recency, lastOp, calls,
          content, suggestions, options, phase, result, rerun,
          suggest, batch, apply, collected, parsed>>

cacheVars == <<now, cache, stored, recency, lastOp>>
linkerVars == <<content, suggestions, options, phase, result, rerun>>
batchVars == <<suggest, batch, apply, collected, parsed>>

\* ------------------------------------------------------------------ bounds

\* the cache capacity the model runs with (constructor argument maxSize)
MaxSize == 3
\* the time-to-live, in ticks (constructor argument ttlMinutes)
TtlTicks == 1
\* the clock stops advancing here
MaxTime == 2

undefined == "undefined"

\* ------------------------------------------------------------ sequences

RECURSIVE SelectSeq2(_, _)
\* the subsequence of s whose elements' key is in the set keep
SelectSeq2(s, keep) ==
    IF s = <<>> THEN <<>>
    ELSE IF Head(s).key \in keep
         THEN <<Head(s)>> \o SelectSeq2(Tail(s), keep)
         ELSE SelectSeq2(Tail(s), keep)

KeysOf(c) == {c[i].key : i \in 1..Len(c)}

\* Map.get
MapGet(c, key) ==
    IF key \in KeysOf(c)
    THEN (CHOOSE i \in 1..Len(c) : c[i].key = key)
    ELSE 0

\* Map.delete: the other entries keep their order
MapDelete(c, key) == SelectSeq2(c, KeysOf(c) \ {key})

\* Map.set: an existing key keeps its position, a new key goes last
MapSet(c, entry) ==
    IF entry.key \in KeysOf(c)
    THEN [i \in 1..Len(c) |-> IF c[i].key = entry.key THEN entry ELSE c[i]]
    ELSE Append(c, entry)

\* ------------------------------------------------------------ LRUCache

isExpired(entry, t) == t > entry.expiresAt

\* a get that renews the entry on every read (sliding expiry)
LRUCache_getSliding(c, key, t) ==
    LET i == MapGet(c, key) IN
    IF i = 0 THEN [cache |-> c, found |-> FALSE]
    ELSE IF isExpired(c[i], t)
         THEN [cache |-> MapDelete(c, key), found |-> FALSE]
         ELSE [cache |-> Append(MapDelete(c, key),
                                [c[i] EXCEPT !.expiresAt = t + TtlTicks]),
               found |-> TRUE, value |-> c[i].value]

\* get: found is FALSE where the code returns undefined
LRUCache_get(c, key, t) ==
    LET i == MapGet(c, key) IN
    IF i = 0 THEN [cache |-> c, found |-> FALSE]
    ELSE IF isExpired(c[i], t)
         THEN [cache |-> MapDelete(c, key), found |-> FALSE]
         ELSE [cache |-> Append(MapDelete(c, key), c[i]),
               found |-> TRUE, value |-> c[i].value]

\* a set that never evicts
LRUCache_setUnbounded(c, key, value, t) ==
    MapSet(c, [key |-> key, value |-> value, expiresAt |-> t + TtlTicks])

LRUCache_set(c, key, value, t) ==
    LET evicted == IF Len(c) >= MaxSize /\ Len(c) > 0
                   THEN MapDelete(c, Head(c).key)
                   ELSE c
    IN MapSet(evicted, [key |-> key, value |-> value,
                        expiresAt |-> t + TtlTicks])

LRUCache_has(c, key, t) ==
    LET r == LRUCache_get(c, key, t) IN
    [cache |-> r.cache, value |-> r.found]

LRUCache_clear(c) == <<>>

LRUCache_size(c) == Len(c)

LRUCache_prune(c, t) ==
    LET expiredKeys == {c[i].key : i \in {j \in 1..Len(c) : isExpired(c[j], t)}}
    IN [cache |-> SelectSeq2(c, KeysOf(c) \ expiredKeys),
        value |-> Cardinality(expiredKeys)]

\* --------------------------------------------------- the cache, exercised

CacheKeys == {"k1", "k2", "k3", "k4"}
CacheValues == {"v1"}
None == "none"
NoHistory == [value |-> undefined, at |-> -1]

NoOp == [op |-> "none", key |-> None, value |-> undefined]

Without(s, drop) == SelectSeq(s, LAMBDA x : x \notin drop)

Touch(s, key) == Append(Without(s, {key}), key)

\* the registry and the linker at rest, for the specifications that leave
\* them alone
RegistryAtRest == calls = <<>>

LinkerAtRest ==
    /\ content = <<>>
    /\ suggestions = <<>>
    /\ options = None
    /\ phase = "rest"
    /\ result = None
    /\ rerun = None

BatchAtRest ==
    /\ suggest = None
    /\ batch = None
    /\ apply = None
    /\ collected = None
    /\ parsed = None

InitCache ==
    /\ now = 0
    /\ cache = <<>>
    /\ stored = [k \in CacheKeys |-> NoHistory]
    /\ recency = <<>>
    /\ lastOp = NoOp
    /\ RegistryAtRest
    /\ LinkerAtRest
    /\ BatchAtRest

\* cache.set(key, value)
SetOp(key, value) ==
    LET after == LRUCache_set(cache, key, value, now)
        removed == KeysOf(cache) \ KeysOf(after)
    IN /\ cache' = after
       /\ stored' = [k \in CacheKeys |->
                        IF k = key THEN [value |-> value, at |-> now]
                        ELSE IF k \in removed THEN NoHistory ELSE stored[k]]
       /\ recency' = Touch(Without(recency, removed), key)
       /\ lastOp' = [op |-> "set", key |-> key, value |-> undefined]
       /\ UNCHANGED <<now, calls, linkerVars, batchVars>>

\* cache.get(key)
GetOp(key) ==
    LET r == LRUCache_get(cache, key, now)
        removed == KeysOf(cache) \ KeysOf(r.cache)
    IN /\ cache' = r.cache
       /\ recency' = IF r.found THEN Touch(recency, key)
                     ELSE Without(recency, removed)
       /\ lastOp' = [op |-> "get", key |-> key,
                     value |-> IF r.found THEN r.value ELSE undefined]
       /\ UNCHANGED <<now, stored, calls, linkerVars, batchVars>>

\* cache.has(key)
HasOp(key) ==
    LET r == LRUCache_has(cache, key, now)
        removed == KeysOf(cache) \ KeysOf(r.cache)
    IN /\ cache' = r.cache
       /\ recency' = IF r.value THEN Touch(recency, key)
                     ELSE Without(recency, removed)
       /\ lastOp' = [op |-> "has", key |-> key,
                     value |-> IF r.value THEN "true" ELSE "false"]
       /\ UNCHANGED <<now, stored, calls, linkerVars, batchVars>>

\* cache.prune()
PruneOp ==
    LET r == LRUCache_prune(cache, now)
        removed == KeysOf(cache) \ KeysOf(r.cache)
    IN /\ cache' = r.cache
       /\ recency' = Without(recency, removed)
       /\ lastOp' = [NoOp EXCEPT !.op = "prune"]
       /\ UNCHANGED <<now, stored, calls, linkerVars, batchVars>>

\* cache.clear()
ClearOp ==
    /\ cache' = LRUCache_clear(cache)
    /\ stored' = [k \in CacheKeys |-> NoHistory]
    /\ recency' = <<>>
    /\ lastOp' = [NoOp EXCEPT !.op = "clear"]
    /\ UNCHANGED <<now, calls, linkerVars, batchVars>>

\* time passes
Tick ==
    /\ now < MaxTime
    /\ now' = now + 1
    /\ lastOp' = NoOp
    /\ UNCHANGED <<cache, stored, recency, calls, linkerVars, batchVars>>

NextCache ==
    \/ \E key \in CacheKeys, value \in CacheValues : SetOp(key, value)
    \/ \E key \in CacheKeys : GetOp(key)
    \/ \E key \in CacheKeys : HasOp(key)
    \/ PruneOp
    \/ ClearOp
    \/ Tick

SpecCache ==
    InitCache /\ [][NextCache]_vars


\* ------------------------------------------------------ KnowledgeRegistry

PROVIDER_ORDER ==
    <<"wikipedia", "dbpedia", "wikidata", "github", "sourceforge",
      "openlibrary", "arxiv", "musicbrainz", "wikiart", "defillama", "shodan">>

\* this.providers: the default providers, shodan and github
providers ==
    {"wikipedia", "wikidata", "wikiart", "openlibrary", "musicbrainz",
     "dbpedia", "arxiv", "sourceforge", "defillama", "shodan", "github"}

\* options?.enableCache !== false, for a registry built without options
cacheEnabled == TRUE

\* the options of a lookup: absent, or an object with a skipCache field
NoOptions == [given |-> FALSE, skipCache |-> FALSE]
LookupOptionsChoices == {NoOptions, [given |-> TRUE, skipCache |-> TRUE]}

\* options?.skipCache
skipCache(o) == o.given /\ o.skipCache

\* JSON.stringify(options, Object.keys(options).sort())
JSON_stringify(o) ==
    <<"{", "skipCache", IF o.skipCache THEN "true" ELSE "false", "}">>

\* a key that leaves the provider out
createCacheKeyNoProvider(provider, query, o) ==
    LET optStr == IF o.given THEN JSON_stringify(o) ELSE <<>>
    IN query \o <<":">> \o optStr

\* `${provider}:${query}:${optStr}`
createCacheKey(provider, query, o) ==
    LET optStr == IF o.given THEN JSON_stringify(o) ELSE <<>>
    IN <<provider>> \o <<":">> \o query \o <<":">> \o optStr

NoResult ==
    [success |-> FALSE, provider |-> None, entries |-> 0, error |-> None,
     cached |-> FALSE, storedBy |-> None]

createErrorResult(provider, error) ==
    [NoResult EXCEPT !.provider = provider, !.error = error]

createEmptyResult(provider) ==
    [NoResult EXCEPT !.success = TRUE, !.provider = provider]

withCacheFlag(r) == [r EXCEPT !.cached = TRUE]

\* a getCached that returns the stored result as it is
getCachedUnflagged(c, key, t) ==
    IF ~cacheEnabled THEN [cache |-> c, found |-> FALSE]
    ELSE LET r == LRUCache_get(c, key, t) IN
         IF r.found
         THEN [cache |-> r.cache, found |-> TRUE, value |-> r.value]
         ELSE [cache |-> r.cache, found |-> FALSE]

\* getCached: the cache after the read, and the flagged result if any
getCached(c, key, t) ==
    IF ~cacheEnabled THEN [cache |-> c, found |-> FALSE]
    ELSE LET r == LRUCache_get(c, key, t) IN
         IF r.found
         THEN [cache |-> r.cache, found |-> TRUE, value |-> withCacheFlag(r.value)]
         ELSE [cache |-> r.cache, found |-> FALSE]

\* a setCached that stores whatever it is given
setCachedAlways(c, key, r, t) ==
    IF cacheEnabled THEN LRUCache_set(c, key, r, t) ELSE c

\* setCached: the cache after it
setCached(c, key, r, t) ==
    IF cacheEnabled /\ r.success THEN LRUCache_set(c, key, r, t) ELSE c

\* what a provider's lookup may resolve to
LookupOutcomes == {"failed", "empty", "entries"}

ProviderResult(name, outcome) ==
    CASE outcome = "failed" -> createErrorResult(name, "lookup failed")
      [] outcome = "empty" -> createEmptyResult(name)
      [] OTHER -> [createEmptyResult(name) EXCEPT !.entries = 1]

\* a lookup invocation. asked, avail, nAsked and passedWinner are history:
\* the provider last asked isAvailable and its answer, how many were asked,
\* and whether the call went on after a provider returned entries.
IdleCall ==
    [pc |-> "idle", mode |-> None, query |-> <<>>, opts |-> NoOptions,
     key |-> <<>>, rest |-> <<>>, asked |-> None, avail |-> None,
     nAsked |-> 0, passedWinner |-> FALSE, result |-> NoResult]

Done(call, r) == [call EXCEPT !.pc = "done", !.result = r]

\* the call suspended at provider.isAvailable()
AskAvailable(call, name) ==
    [call EXCEPT !.pc = "isAvailable", !.asked = name, !.avail = "pending",
                 !.nAsked = @ + 1]

\* the call suspended at provider.lookup(query, options)
AskLookup(call) == [call EXCEPT !.pc = "lookup"]

RECURSIVE tryProviderFromEnd(_, _)
\* a tryProvider that takes the last name of the list first
tryProviderFromEnd(call, providerNames) ==
    IF providerNames = <<>> THEN Done(call, createEmptyResult("auto"))
    ELSE LET name == providerNames[Len(providerNames)]
             rest == SubSeq(providerNames, 1, Len(providerNames) - 1)
         IN IF name \notin providers THEN tryProviderFromEnd(call, rest)
            ELSE AskAvailable([call EXCEPT !.rest = rest], name)

RECURSIVE tryProviderOrError(_, _)
\* a tryProvider that reports an error when the list is exhausted
tryProviderOrError(call, providerNames) ==
    IF providerNames = <<>>
    THEN Done(call, createErrorResult("auto", "no provider had entries"))
    ELSE LET name == Head(providerNames)
             rest == Tail(providerNames)
         IN IF name \notin providers THEN tryProviderOrError(call, rest)
            ELSE AskAvailable([call EXCEPT !.rest = rest], name)

RECURSIVE tryProvider(_, _)
\* tryProvider, up to its first await
tryProvider(call, providerNames) ==
    IF providerNames = <<>> THEN Done(call, createEmptyResult("auto"))
    ELSE LET name == Head(providerNames)
             rest == Tail(providerNames)
         IN IF name \notin providers THEN tryProvider(call, rest)
            ELSE AskAvailable([call EXCEPT !.rest = rest], name)

\* the result as the cache holds it; storedBy is history: the mode of the
\* call that stored it
Stamped(r, mode) == [r EXCEPT !.storedBy = mode]

\* lookup / autoLookup, from entry to the first await or return
lookup(query, providerType, o, c, t) ==
    LET mode == IF providerType = "auto" THEN "auto" ELSE "direct"
        cacheKey == createCacheKey(providerType, query, o)
        call == [IdleCall EXCEPT !.mode = mode, !.query = query, !.opts = o,
                                 !.key = cacheKey]
        read == IF skipCache(o) THEN [cache |-> c, found |-> FALSE]
                ELSE getCached(c, cacheKey, t)
    IN [cache |-> read.cache,
        call |-> IF read.found THEN Done(call, read.value)
                 ELSE IF mode = "auto" THEN tryProvider(call, PROVIDER_ORDER)
                 ELSE IF providerType \notin providers
                      THEN Done(call, createErrorResult(providerType,
                                                        "Unknown provider"))
                      ELSE AskAvailable(call, providerType)]

\* the continuation of `await provider.isAvailable()`
onIsAvailable(call, available, c, t) ==
    IF available THEN [cache |-> c, call |-> AskLookup(call)]
    ELSE IF call.mode = "auto"
         THEN [cache |-> c, call |-> tryProvider(call, call.rest)]
         ELSE LET r == createErrorResult(call.asked, "not available")
              IN [cache |-> setCached(c, call.key, Stamped(r, "direct"), t),
                  call |-> Done(call, r)]

\* the continuation of `await provider.lookup(query, options)`
onLookup(call, r, c, t) ==
    IF call.mode = "auto"
    THEN IF r.success /\ r.entries > 0
         THEN [cache |-> setCached(c, call.key, Stamped(r, "auto"), t),
               call |-> Done(call, r)]
         ELSE [cache |-> c, call |-> tryProvider(call, call.rest)]
    ELSE [cache |-> setCached(c, call.key, Stamped(r, "direct"), t),
          call |-> Done(call, r)]

\* ------------------------------------------------ the registry, exercised

Callers == {"c1"}
Queries == {<<"x">>}
ProviderTypes == {"auto", "wikipedia", "nope"}
\* the providers that have entries for the queries asked
WithEntries == {"wikipedia", "shodan"}

cacheGhosts == <<stored, recency, lastOp>>

CacheGhostsAtRest ==
    /\ stored = [k \in CacheKeys |-> NoHistory]
    /\ recency = <<>>
    /\ lastOp = NoOp

InitRegistry ==
    /\ now = 0
    /\ cache = <<>>
    /\ calls = [c \in Callers |-> IdleCall]
    /\ CacheGhostsAtRest
    /\ LinkerAtRest
    /\ BatchAtRest

\* registry.lookup(query, providerType, options) is called
StartLookup(id, query, providerType, o) ==
    /\ calls[id].pc \in {"idle", "done"}
    /\ LET step == lookup(query, providerType, o, cache, now) IN
       /\ cache' = step.cache
       /\ calls' = [calls EXCEPT ![id] = step.call]
    /\ UNCHANGED <<now, cacheGhosts, linkerVars, batchVars>>

\* provider.isAvailable() resolves
IsAvailableReturns(id, available) ==
    /\ calls[id].pc = "isAvailable"
    /\ LET told == [calls[id] EXCEPT
                        !.avail = IF available THEN "yes" ELSE "no"]
           step == onIsAvailable(told, available, cache, now)
       IN /\ cache' = step.cache
          /\ calls' = [calls EXCEPT ![id] = step.call]
    /\ UNCHANGED <<now, cacheGhosts, linkerVars, batchVars>>

\* provider.lookup() resolves
LookupReturns(id, outcome) ==
    /\ calls[id].pc = "lookup"
    /\ outcome = "entries" => calls[id].asked \in WithEntries
    /\ LET r == ProviderResult(calls[id].asked, outcome)
           step == onLookup(calls[id], r, cache, now)
       IN /\ cache' = step.cache
          /\ calls' = [calls EXCEPT ![id] =
                [step.call EXCEPT !.passedWinner =
                    @ \/ (r.success /\ r.entries > 0
                            /\ step.call.pc # "done")]]
    /\ UNCHANGED <<now, cacheGhosts, linkerVars, batchVars>>

\* registry.clearCache()
ClearCache ==
    /\ cache # <<>>
    /\ cache' = LRUCache_clear(cache)
    /\ UNCHANGED <<now, calls, cacheGhosts, linkerVars, batchVars>>

\* time passes
RegistryTick ==
    /\ now < MaxTime
    /\ now' = now + 1
    /\ UNCHANGED <<cache, calls, cacheGhosts, linkerVars, batchVars>>

NextRegistry ==
    \/ \E id \in Callers, query \in Queries, providerType \in ProviderTypes,
          o \in LookupOptionsChoices : StartLookup(id, query, providerType, o)
    \/ \E id \in Callers, available \in BOOLEAN :
          IsAvailableReturns(id, available)
    \/ \E id \in Callers, outcome \in LookupOutcomes :
          LookupReturns(id, outcome)
    \/ ClearCache
    \/ RegistryTick

SpecRegistry ==
    InitRegistry /\ [][NextRegistry]_vars

\* ------------------------------------------------------- texts (strings)

\* the characters \w matches, among those the model writes
WordChars == {"a", "A"}

isWordChar(ch) == ch \in WordChars

\* String.prototype.toLowerCase, on one character and on a text
toLowerCase1(ch) == IF ch = "A" THEN "a" ELSE ch
toLowerCase(str) == [i \in 1..Len(str) |-> toLowerCase1(str[i])]

\* str[i], with i counted from 0; "" outside the text
At(str, i) == IF i >= 0 /\ i < Len(str) THEN str[i + 1] ELSE ""

\* the character ` (a TLA+ string cannot hold it)
Backtick == "'"

Min(S) == CHOOSE x \in S : \A y \in S : x <= y

\* the first index >= from (counted from 0) holding one of chars, or -1
IndexOfAny(str, chars, from) ==
    LET hits == {i \in from..(Len(str) - 1) : str[i + 1] \in chars}
    IN IF hits = {} THEN -1 ELSE Min(hits)

\* String.prototype.slice(from, to), 0 <= from
slice(str, from, to) ==
    SubSeq(str, from + 1, IF to < Len(str) THEN to ELSE Len(str))

RECURSIVE split(_)
\* content.split("\n")
split(str) ==
    LET i == IndexOfAny(str, {"\n"}, 0) IN
    IF i = -1 THEN <<str>>
    ELSE <<slice(str, 0, i)>> \o split(slice(str, i + 1, Len(str)))

RECURSIVE Flatten(_)
\* the concatenation of a sequence of texts
Flatten(parts) ==
    IF parts = <<>> THEN <<>> ELSE Head(parts) \o Flatten(Tail(parts))

\* ------------------------------------------------------ insertion engine

Delimiter == <<"-", "-", "-">>

\* a findFrontmatterEnd that finds no frontmatter
findFrontmatterEndNone(lines) == -1

\* findFrontmatterEnd: the 0-based index of the closing line, or -1
findFrontmatterEnd(lines) ==
    IF lines[1] # Delimiter THEN -1
    ELSE LET closing == {i \in 1..(Len(lines) - 1) : lines[i + 1] = Delimiter}
         IN IF closing = {} THEN -1 ELSE Min(closing)

RECURSIVE extractLinksFrom(_, _)
\* the matches of /\[\[[^\]]+\]\]/g from index i on, as ranges [start, end)
extractLinksFrom(line, i) ==
    IF i + 1 >= Len(line) THEN <<>>
    ELSE IF At(line, i) = "[" /\ At(line, i + 1) = "["
         THEN LET j == IndexOfAny(line, {"]"}, i + 2) IN
              IF j >= i + 3 /\ At(line, j + 1) = "]"
              THEN <<[start |-> i, end |-> j + 2]>>
                       \o extractLinksFrom(line, j + 2)
              ELSE extractLinksFrom(line, i + 1)
         ELSE extractLinksFrom(line, i + 1)

extractLinks(line) == extractLinksFrom(line, 0)

RECURSIVE extractCodeSpansFrom(_, _)
\* the matches of /`[^`]+`/g from index i on
extractCodeSpansFrom(line, i) ==
    IF i >= Len(line) THEN <<>>
    ELSE IF At(line, i) = Backtick
         THEN LET j == IndexOfAny(line, {Backtick}, i + 1) IN
              IF j >= i + 2
              THEN <<[start |-> i, end |-> j + 1]>>
                       \o extractCodeSpansFrom(line, j + 1)
              ELSE extractCodeSpansFrom(line, i + 1)
         ELSE extractCodeSpansFrom(line, i + 1)

extractCodeSpans(line) == extractCodeSpansFrom(line, 0)

isPositionInRanges(position, ranges) ==
    \E k \in 1..Len(ranges) :
        position >= ranges[k].start /\ position < ranges[k].end

isPositionInLink(line, position) ==
    isPositionInRanges(position, extractLinks(line) \o extractCodeSpans(line))

RECURSIVE existingLinkTargetsFrom(_, _)
\* m[1] of every match of /\[\[([^\]|]+)(\|[^\]]+)?\]\]/g from index i on
existingLinkTargetsFrom(line, i) ==
    IF i + 1 >= Len(line) THEN <<>>
    ELSE IF At(line, i) = "[" /\ At(line, i + 1) = "["
         THEN LET j == IndexOfAny(line, {"]", "|"}, i + 2)
                  k == IF j >= 0 /\ At(line, j) = "|"
                       THEN IndexOfAny(line, {"]"}, j + 1) ELSE j
                  closes == /\ j >= i + 3
                            /\ k >= 0
                            /\ (At(line, j) = "|" => k >= j + 2)
                            /\ At(line, k) = "]" /\ At(line, k + 1) = "]"
              IN IF closes
                 THEN <<slice(line, i + 2, j)>>
                          \o existingLinkTargetsFrom(line, k + 2)
                 ELSE existingLinkTargetsFrom(line, i + 1)
         ELSE existingLinkTargetsFrom(line, i + 1)

lineContainsExistingLink(line, target) ==
    LET found == existingLinkTargetsFrom(line, 0) IN
    \E k \in 1..Len(found) : toLowerCase(found[k]) = toLowerCase(target)

\* \b at index p: exactly one of the characters around it is a word character
isWordBoundary(line, p) ==
    isWordChar(At(line, p - 1)) # isWordChar(At(line, p))

\* whether new RegExp(`\\b${escapeRegex(target)}\\b`, "gi") matches at pos
patternMatchesAt(line, pos, target) ==
    /\ pos + Len(target) <= Len(line)
    /\ \A k \in 1..Len(target) :
          toLowerCase1(line[pos + k]) = toLowerCase1(target[k])
    /\ isWordBoundary(line, pos)
    /\ isWordBoundary(line, pos + Len(target))

RECURSIVE matchAllFrom(_, _, _)
\* line.matchAll(pattern): the start indexes, left to right, not overlapping
matchAllFrom(line, target, pos) ==
    IF pos + Len(target) > Len(line) THEN <<>>
    ELSE IF patternMatchesAt(line, pos, target)
         THEN <<pos>> \o matchAllFrom(line, target, pos + Len(target))
         ELSE matchAllFrom(line, target, pos + 1)

RECURSIVE buildLineInfoFrom(_, _, _, _)
\* buildLineInfo: lineNum counts from 0, offset is the line's first index
buildLineInfoFrom(lines, frontmatterEnd, lineNum, offset) ==
    IF lineNum >= Len(lines) THEN <<>>
    ELSE LET text == lines[lineNum + 1]
             nextOffset == offset + Len(text) + 1
             rest == buildLineInfoFrom(lines, frontmatterEnd, lineNum + 1,
                                       nextOffset)
         IN IF lineNum <= frontmatterEnd THEN rest
            ELSE <<[lineNum |-> lineNum, text |-> text, offset |-> offset]>>
                     \o rest

buildLineInfo(lines, frontmatterEnd) ==
    buildLineInfoFrom(lines, frontmatterEnd, 0, 0)

findMatchesInLine(line, targetNote) ==
    IF lineContainsExistingLink(line.text, targetNote) THEN <<>>
    ELSE LET starts == matchAllFrom(line.text, targetNote, 0)
             kept == SelectSeq(starts,
                        LAMBDA st : ~isPositionInLink(line.text, st))
         IN [k \in 1..Len(kept) |->
                [index |-> line.offset + kept[k],
                 length |-> Len(targetNote),
                 text |-> slice(line.text, kept[k], kept[k] + Len(targetNote)),
                 line |-> line.lineNum + 1,
                 column |-> kept[k] + 1]]

\* findLinkableMatches: one LinkMatch per suggestion that has matches
findLinkableMatches(text, suggs) ==
    LET lines == split(text)
        lineInfos == buildLineInfo(lines, findFrontmatterEnd(lines))
        all == [s \in 1..Len(suggs) |->
                  [suggestion |-> suggs[s],
                   matches |-> Flatten([l \in 1..Len(lineInfos) |->
                       findMatchesInLine(lineInfos[l], suggs[s].targetNote)])]]
    IN SelectSeq(all, LAMBDA lm : Len(lm.matches) > 0)

\* [[target|alias]] and [[target]]
AliasLink(target, alias) == <<"[", "[">> \o target \o <<"|">> \o alias \o <<"]", "]">>
BareLink(target) == <<"[", "[">> \o target \o <<"]", "]">>

\* a formatLink that puts any display text it is given into the link
formatLinkAnyDisplayText(target, matchedText, displayText) ==
    IF displayText # <<>>
    THEN AliasLink(target, displayText)
    ELSE IF matchedText # target
         THEN AliasLink(target, matchedText)
         ELSE BareLink(target)

\* formatLink; displayText is <<>> where the code has undefined or ""
formatLink(target, matchedText, displayText) ==
    IF displayText # <<>> /\ displayText # target
    THEN AliasLink(target, displayText)
    ELSE IF matchedText # target
         THEN AliasLink(target, matchedText)
         ELSE BareLink(target)

\* Array.prototype.slice(0, limit), limit >= 0
Take(seq, limit) == SubSeq(seq, 1, IF limit < Len(seq) THEN limit ELSE Len(seq))

RECURSIVE selectMatchesBounded(_, _, _)
\* a selection that takes maxPerNote matches in either mode
selectMatchesBounded(linkMatches, firstMatchOnly, maxPerNote) ==
    IF linkMatches = <<>> THEN [selected |-> <<>>, skipped |-> 0]
    ELSE LET linkMatch == Head(linkMatches)
             selected == Take(linkMatch.matches, maxPerNote)
             skipped == Len(linkMatch.matches) - Len(selected)
             rest == selectMatchesBounded(Tail(linkMatches), firstMatchOnly,
                                          maxPerNote)
         IN [selected |->
                [k \in 1..Len(selected) |->
                    [suggestion |-> linkMatch.suggestion,
                     match |-> selected[k]]] \o rest.selected,
             skipped |-> skipped + rest.skipped]

RECURSIVE selectMatchesUncounted(_, _, _)
\* a selection that does not count the matches it leaves out
selectMatchesUncounted(linkMatches, firstMatchOnly, maxPerNote) ==
    IF linkMatches = <<>> THEN [selected |-> <<>>, skipped |-> 0]
    ELSE LET linkMatch == Head(linkMatches)
             limit == IF firstMatchOnly THEN 1 ELSE maxPerNote
             selected == Take(linkMatch.matches, limit)
             rest == selectMatchesUncounted(Tail(linkMatches),
                                            firstMatchOnly, maxPerNote)
         IN [selected |->
                [k \in 1..Len(selected) |->
                    [suggestion |-> linkMatch.suggestion,
                     match |-> selected[k]]] \o rest.selected,
             skipped |-> rest.skipped]

RECURSIVE selectMatches(_, _, _)
\* selectMatches: the reduce over the link matches, in their order
selectMatches(linkMatches, firstMatchOnly, maxPerNote) ==
    IF linkMatches = <<>> THEN [selected |-> <<>>, skipped |-> 0]
    ELSE LET linkMatch == Head(linkMatches)
             limit == IF firstMatchOnly THEN 1 ELSE maxPerNote
             selected == Take(linkMatch.matches, limit)
             skipped == Len(linkMatch.matches) - Len(selected)
             rest == selectMatches(Tail(linkMatches), firstMatchOnly,
                                   maxPerNote)
         IN [selected |->
                [k \in 1..Len(selected) |->
                    [suggestion |-> linkMatch.suggestion,
                     match |-> selected[k]]] \o rest.selected,
             skipped |-> skipped + rest.skipped]

RECURSIVE sortDescending(_)
\* [...matches].sort((a, b) => b.match.index - a.match.index): a stable sort
sortDescending(matches) ==
    IF matches = <<>> THEN <<>>
    ELSE LET last == matches[Len(matches)]
             front == sortDescending(SubSeq(matches, 1, Len(matches) - 1))
             before == SelectSeq(front,
                          LAMBDA m : m.match.index >= last.match.index)
             after == SelectSeq(front,
                          LAMBDA m : m.match.index < last.match.index)
         IN before \o <<last>> \o after

RECURSIVE applySortedAppending(_, _, _)
\* a reduce that adds each change at the end of the list
applySortedAppending(acc, sorted, useDisplayText) ==
    IF sorted = <<>> THEN acc
    ELSE LET suggestion == Head(sorted).suggestion
             match == Head(sorted).match
             linkedText == formatLink(suggestion.targetNote, match.text,
                              IF useDisplayText THEN suggestion.suggestedText
                              ELSE <<>>)
         IN applySortedAppending(
                [newContent |->
                    slice(acc.newContent, 0, match.index) \o linkedText
                        \o slice(acc.newContent, match.index + match.length,
                                 Len(acc.newContent)),
                 changes |->
                    acc.changes \o
                    <<[targetNote |-> suggestion.targetNote,
                       line |-> match.line,
                       originalText |-> match.text,
                       linkedText |-> linkedText]>>],
                Tail(sorted), useDisplayText)

RECURSIVE applySorted(_, _, _)
\* the reduce of applyReplacements over the sorted matches
applySorted(acc, sorted, useDisplayText) ==
    IF sorted = <<>> THEN acc
    ELSE LET suggestion == Head(sorted).suggestion
             match == Head(sorted).match
             linkedText == formatLink(suggestion.targetNote, match.text,
                              IF useDisplayText THEN suggestion.suggestedText
                              ELSE <<>>)
         IN applySorted(
                [newContent |->
                    slice(acc.newContent, 0, match.index) \o linkedText
                        \o slice(acc.newContent, match.index + match.length,
                                 Len(acc.newContent)),
                 changes |->
                    <<[targetNote |-> suggestion.targetNote,
                       line |-> match.line,
                       originalText |-> match.text,
                       linkedText |-> linkedText]>> \o acc.changes],
                Tail(sorted), useDisplayText)

applyReplacements(text, matches, useDisplayText) ==
    applySorted([newContent |-> text, changes |-> <<>>],
                sortDescending(matches), useDisplayText)

\* insertLinks. selected and candidates are not part of the InsertResult:
\* they are the matches selectMatches chose and the number of matches found.
insertLinks(text, suggs, opts) ==
    LET linkMatches == findLinkableMatches(text, suggs)
        chosen == selectMatches(linkMatches, opts.firstMatchOnly,
                                opts.maxPerNote)
        applied == applyReplacements(text, chosen.selected,
                                     opts.useDisplayText)
    IN [originalContent |-> text,
        newContent |-> applied.newContent,
        insertedLinks |-> Len(chosen.selected),
        skippedLinks |-> chosen.skipped,
        changes |-> applied.changes,
        selected |-> chosen.selected]

\* ------------------------------------------------- the linker, exercised

\* the number of fragments a note's body is written from
MaxFrags == 3

\* what a note's body is written from: words, a phrase, blanks, line ends,
\* a wiki-link and a code span
Frags ==
    {<<"a">>, <<"A">>, <<"a", " ", "a">>, <<" ">>, <<"\n">>,
     <<"[", "[", "a", "]", "]">>, <<Backtick, "a", Backtick>>}

\* how a note starts: with nothing, or with a frontmatter block holding "a"
\* (closed when a line end or nothing follows it)
Heads == {<<>>, Delimiter \o <<"\n", "a", "\n">> \o Delimiter}

Bodies == {Flatten(f) : f \in UNION {[1..n -> Frags] : n \in 0..MaxFrags}}

Contents == {h \o b : h \in Heads, b \in Bodies}

\* a LinkSuggestion; suggestedText is <<>> where the field is absent
Suggestion(target, text) == [targetNote |-> target, suggestedText |-> text]

toA == Suggestion(<<"a">>, <<>>)
toAA == Suggestion(<<"a", " ", "a">>, <<>>)
toTick == Suggestion(<<"a", Backtick, "a">>, <<>>)
toAShown == Suggestion(<<"a">>, <<"A">>)
toASame == Suggestion(<<"a">>, <<"a">>)

\* the suggestion lists given: none, one, the same target twice, a target
\* that is part of another (both orders), a target holding a backtick, a
\* suggestion with display text, a suggestion whose display text is its target
SuggestionLists ==
    {<<>>, <<toA>>, <<toA, toA>>, <<toA, toAA>>, <<toAA, toA>>,
     <<toTick>>, <<toTick, toA>>, <<toAShown>>, <<toASame>>}

\* options?.maxPerNote ?? 1, options?.firstMatchOnly ?? true,
\* options?.useDisplayText ?? false
DefaultOptions ==
    [firstMatchOnly |-> TRUE, maxPerNote |-> 1, useDisplayText |-> FALSE]

OptionChoices ==
    {DefaultOptions}
    \cup {[firstMatchOnly |-> f, maxPerNote |-> n, useDisplayText |-> d] :
             f \in BOOLEAN, n \in 0..2, d \in BOOLEAN}

InitLinker ==
    /\ content \in Contents
    /\ suggestions \in SuggestionLists
    /\ options \in OptionChoices
    /\ phase = "edit"
    /\ result = None
    /\ rerun = None
    /\ now = 0
    /\ cache = <<>>
    /\ CacheGhostsAtRest
    /\ RegistryAtRest
    /\ BatchAtRest

\* insertLinks(content, suggestions, options)
Insert ==
    /\ phase = "edit"
    /\ result' = insertLinks(content, suggestions, options)
    /\ phase' = "inserted"
    /\ UNCHANGED <<content, suggestions, options, rerun, cacheVars, calls, batchVars>>

\* insertLinks(result.newContent, suggestions, options)
Reinsert ==
    /\ phase = "inserted"
    /\ rerun' = insertLinks(result.newContent, suggestions, options)
    /\ phase' = "reinserted"
    /\ UNCHANGED <<content, suggestions, options, result, cacheVars, calls, batchVars>>

NextLinker == Insert \/ Reinsert

SpecLinker == InitLinker /\ [][NextLinker]_vars

\* ------------------------------------------------- claims on the LRUCache

\* C6: in a cache of capacity N holding N entries, set of a key that is not
\* present removes exactly one entry, the least recently touched one (touched:
\* written by set or successfully read by get/has), and keeps all others.
C6_EvictsLeastRecentlyTouched ==
    [][(lastOp'.op = "set" /\ Len(cache) = MaxSize
            /\ lastOp'.key \notin KeysOf(cache))
        => KeysOf(cache) \ KeysOf(cache') = {Head(recency)}]_vars

\* C7: a key stored by set at time T and not evicted or cleared since is
\* returned by get at every time up to T + TTL and is undefined after it,
\* however often it was read in between.
C7_TtlFixedBySet ==
    (lastOp.op = "get" /\ stored[lastOp.key] # NoHistory)
        => lastOp.value = IF now <= stored[lastOp.key].at + TtlTicks
                          THEN stored[lastOp.key].value
                          ELSE undefined

\* C7 witness: a read at exactly T + TTL, of an entry set before now, that
\* still returns the stored value.
C7_ReadAtExpiryBoundary ==
    /\ lastOp.op = "get"
    /\ stored[lastOp.key] # NoHistory
    /\ TtlTicks > 0
    /\ now = stored[lastOp.key].at + TtlTicks
    /\ lastOp.value = stored[lastOp.key].value


\* ------------------------------------------------- claims on the registry

\* C5: a lookup made with skipCache bypasses the cache for read and write:
\* no step of such a call changes the cache, and its result is never a
\* cached one.
C5_SkipCacheBypassesReadAndWrite ==
    [][\A id \in Callers :
        (calls'[id] # calls[id] /\ skipCache(calls'[id].opts))
            => (cache' = cache /\ ~calls'[id].result.cached)]_vars

\* C8: every entry the registry cache holds is a result with success = true,
\* and no failed result is returned tagged cached.
C8_NeverCachesFailure ==
    /\ \A i \in 1..Len(cache) : cache[i].value.success
    /\ \A id \in Callers :
        (calls[id].pc = "done" /\ calls[id].result.cached)
            => calls[id].result.success

\* C8 witness: a lookup without skipCache ended in a provider failure while
\* the cache holds other entries, and its key is not in the cache.
C8_FailedLookupNotStored ==
    \E id \in Callers :
        /\ calls[id].pc = "done"
        /\ ~skipCache(calls[id].opts)
        /\ ~calls[id].result.success
        /\ calls[id].result.error = "lookup failed"
        /\ cache # <<>>
        /\ calls[id].key \notin KeysOf(cache)

\* C9: an auto lookup asks the providers in PROVIDER_ORDER, one after the
\* other; lookup is invoked only on a provider that said it is available;
\* the call never goes on past a provider that returned entries; it ends with
\* the result of the provider asked last, or with the empty "auto" result
\* once all providers were asked.
C9_AutoFollowsProviderOrder ==
    \A id \in Callers :
        LET c == calls[id] IN
        c.mode = "auto" =>
            /\ c.pc \in {"isAvailable", "lookup"} =>
                  (c.nAsked >= 1 /\ c.nAsked <= Len(PROVIDER_ORDER)
                      /\ c.asked = PROVIDER_ORDER[c.nAsked])
            /\ c.pc = "lookup" => c.avail = "yes"
            /\ ~c.passedWinner
            /\ (c.pc = "done" /\ ~c.result.cached) =>
                  IF c.result.provider = "auto"
                  THEN c.nAsked = Len(PROVIDER_ORDER) /\ c.result.entries = 0
                  ELSE /\ c.result.success /\ c.result.entries > 0
                       /\ c.avail = "yes"
                       /\ c.result.provider = c.asked
                       /\ c.asked = PROVIDER_ORDER[c.nAsked]

\* C9 witness: an auto lookup won by the last provider of the order, after
\* every provider before it was asked.
C9_LastProviderWins ==
    \E id \in Callers :
        /\ calls[id].mode = "auto" /\ calls[id].pc = "done"
        /\ ~calls[id].result.cached
        /\ calls[id].result.provider = PROVIDER_ORDER[Len(PROVIDER_ORDER)]
        /\ calls[id].nAsked = Len(PROVIDER_ORDER)

\* C10: auto and direct lookups never share a cache entry: an entry is under
\* an auto-scoped key exactly if an auto lookup stored it, what an auto
\* lookup stored is a winning result, and a cache hit returns an entry stored
\* by a call of the same mode.
C10_AutoAndDirectKeysDisjoint ==
    /\ \A i \in 1..Len(cache) :
        /\ (Head(cache[i].key) = "auto") <=> (cache[i].value.storedBy = "auto")
        /\ cache[i].value.storedBy = "auto" =>
              (cache[i].value.success /\ cache[i].value.entries > 0)
    /\ \A id \in Callers :
        (calls[id].pc = "done" /\ calls[id].result.cached)
            => calls[id].result.storedBy = calls[id].mode

\* C10 witness: a direct lookup of wikipedia is served from the cache while
\* the cache also holds, for the same query and options, an auto result won
\* by wikipedia.
C10_BothEntriesHeld ==
    \E id \in Callers, i \in 1..Len(cache) :
        /\ calls[id].pc = "done" /\ calls[id].mode = "direct"
        /\ calls[id].result.cached
        /\ calls[id].result.provider = "wikipedia"
        /\ cache[i].key = createCacheKey("auto", calls[id].query, calls[id].opts)
        /\ cache[i].value.provider = "wikipedia"

\* ---------------------------------------------- claims on the link engine

Reverse(seq) == [k \in 1..Len(seq) |-> seq[Len(seq) + 1 - k]]

RangesDisjoint(m, n) ==
    m.index + m.length <= n.index \/ n.index + n.length <= m.index

RECURSIVE SpliceChanges(_, _, _, _)
\* original from offset from on, each of the ranges (ascending, disjoint)
\* replaced by the linkedText of its change
SpliceChanges(original, from, ranges, changes) ==
    IF ranges = <<>> THEN slice(original, from, Len(original))
    ELSE slice(original, from, Head(ranges).match.index)
            \o Head(changes).linkedText
            \o SpliceChanges(original,
                   Head(ranges).match.index + Head(ranges).match.length,
                   Tail(ranges), Tail(changes))

\* C1: the matches insertLinks selects and applies cover pairwise
\* non-overlapping ranges of the original text, and newContent is the original
\* text with exactly those ranges replaced by the linkedText of their changes.
C1_ChangesDisjointAndSpliced ==
    phase # "edit" =>
        /\ \A i, j \in 1..Len(result.selected) :
              i # j => RangesDisjoint(result.selected[i].match,
                                      result.selected[j].match)
        /\ result.newContent =
              SpliceChanges(result.originalContent, 0,
                            Reverse(sortDescending(result.selected)),
                            result.changes)

\* C2: insertLinks is idempotent: run again on its own newContent with the same
\* suggestions and options it inserts no link and returns that text unchanged.
C2_InsertLinksIdempotent ==
    phase = "reinserted" =>
        /\ rerun.insertedLinks = 0
        /\ rerun.newContent = result.newContent

\* the length of the frontmatter block a text starts with, from the opening
\* delimiter line through the closing one; 0 where the text has none
FrontmatterLength(text) ==
    LET lines == split(text)
        closing == {i \in 2..Len(lines) : lines[i] = Delimiter}
    IN IF lines[1] # Delimiter \/ closing = {} THEN 0
       ELSE LET k == Min(closing)
            IN Len(Flatten(SubSeq(lines, 1, k))) + (k - 1)

\* C3: in a text that starts with a closed frontmatter block, insertLinks
\* selects no match whose offset lies inside the block, and the block is the
\* same in originalContent and newContent, also when it holds the target.
C3_FrontmatterUntouched ==
    (phase # "edit" /\ FrontmatterLength(content) > 0) =>
        LET block == FrontmatterLength(content) IN
        /\ \A k \in 1..Len(result.selected) :
              result.selected[k].match.index >= block
        /\ SubSeq(result.newContent, 1, block)
              = SubSeq(result.originalContent, 1, block)

\* a note whose frontmatter holds the target and whose body got a link to it
C3_TargetInFrontmatterLinkedInBody ==
    /\ phase = "inserted"
    /\ FrontmatterLength(content) > 0
    /\ \E k \in 1..Len(suggestions) : suggestions[k].targetNote = <<"a">>
    /\ result.insertedLinks > 0
    /\ \A k \in 1..Len(result.selected) :
          result.selected[k].match.index > FrontmatterLength(content)

\* C4: no match findLinkableMatches reports intersects a wiki-link span or an
\* inline code span of its line, wherever in the match the overlap falls.
C4_NoMatchIntersectsProtectedSpan ==
    phase # "edit" =>
        LET lines == split(content)
            found == findLinkableMatches(content, suggestions)
        IN \A s \in 1..Len(found) : \A k \in 1..Len(found[s].matches) :
              LET m == found[s].matches[k]
                  line == lines[m.line]
                  spans == extractLinks(line) \o extractCodeSpans(line)
              IN \A r \in 1..Len(spans) :
                    \/ m.column - 1 + m.length <= spans[r].start
                    \/ spans[r].end <= m.column - 1

\* ------------------------------------------- more claims on the registry

EntriesOf(c) == {c[i] : i \in 1..Len(c)}

\* C11: an auto-mode lookup in which no provider returns success with entries
\* returns success = true, no entries, no error and provider = "auto", and no
\* step of such a call writes to the cache.
C11_AutoExhaustedIsEmptyAuto ==
    [][\A id \in Callers :
        (calls'[id] # calls[id] /\ calls'[id].mode = "auto") =>
            /\ (calls'[id].pc = "done" /\ calls'[id].result.entries = 0)
                  => /\ calls'[id].result = createEmptyResult("auto")
                     /\ cache' = cache
            /\ ~(calls'[id].pc = "done" /\ calls'[id].result.entries > 0)
                  => EntriesOf(cache') \subseteq EntriesOf(cache)]_vars

\* every provider of PROVIDER_ORDER was asked and none had entries
C11_AllProvidersExhausted ==
    \E id \in Callers :
        /\ calls[id].pc = "done"
        /\ calls[id].mode = "auto"
        /\ calls[id].nAsked = Len(PROVIDER_ORDER)
        /\ calls[id].result.provider = "auto"
        /\ calls[id].result.success
        /\ calls[id].result.entries = 0

\* the unexpired entry the cache holds for key, as a set (empty on a miss)
Unexpired(c, key, t) ==
    {e \in EntriesOf(c) : e.key = key /\ t <= e.expiresAt}

\* C12: in a direct lookup without skipCache, a cache hit returns the stored
\* result with cached = true and calls neither isAvailable nor lookup; the
\* provider's lookup is called only after a miss and after isAvailable returned
\* true; the provider's result is returned without cached = true and is stored
\* under the key only if its success is true.
C12_DirectLookupThroughCache ==
    [][\A id \in Callers :
        (calls'[id] # calls[id] /\ calls'[id].mode = "direct"
            /\ ~skipCache(calls'[id].opts)) =>
          LET before == calls[id]
              after == calls'[id]
              hit == Unexpired(cache, after.key, now)
          IN /\ (before.pc \in {"idle", "done"} /\ hit # {}) =>
                    /\ after.pc = "done"
                    /\ after.nAsked = 0
                    /\ \E e \in hit : after.result = withCacheFlag(e.value)
             /\ (before.pc \in {"idle", "done"} /\ hit = {}) =>
                    /\ after.pc \in {"isAvailable", "done"}
                    /\ after.pc = "done" => ~after.result.success
             /\ after.pc = "lookup" =>
                    /\ before.pc = "isAvailable"
                    /\ after.avail = "yes"
             /\ (before.pc = "isAvailable" /\ after.pc = "done") =>
                    /\ after.avail = "no"
                    /\ ~after.result.success
                    /\ cache' = cache
             /\ (before.pc = "lookup" /\ after.pc = "done") =>
                    /\ ~after.result.cached
                    /\ after.result.success =>
                          \E e \in EntriesOf(cache') :
                              /\ e.key = after.key
                              /\ e.value = Stamped(after.result, "direct")
                    /\ ~after.result.success => cache' = cache]_vars

\* a direct lookup answered from the cache
C12_DirectHitReturned ==
    \E id \in Callers :
        /\ calls[id].pc = "done"
        /\ calls[id].mode = "direct"
        /\ ~skipCache(calls[id].opts)
        /\ calls[id].result.cached
        /\ calls[id].nAsked = 0

\* ------------------------------------------ KnowledgeRegistry.suggestLinks

\* the names suggestLinks is asked for; "nope" is never registered
AINames == {"ollama", "openai", "nope"}
AIProviders == {"ollama", "openai"}

\* the most suggestions a backend returns
MaxReturned == 3

\* what provider.suggestLinks may resolve to: a result (success or not, with
\* or without the optional error field), or a rejection
BackendOutcomes == {"suggestions", "none", "failed", "failedSilently", "throws"}

NoSuggestResult ==
    [success |-> FALSE, provider |-> None, suggestions |-> 0,
     error |-> FALSE, thrown |-> FALSE]

\* the result literals of Registry.suggestLinks
SuggestFailure(providerName) ==
    [NoSuggestResult EXCEPT !.provider = providerName, !.error = TRUE]

\* a failure result that carries no error message
SuggestFailureNoError(providerName) ==
    [NoSuggestResult EXCEPT !.provider = providerName]

\* what the backend returns, handed on by the registry as it is
BackendResult(name, outcome, n) ==
    CASE outcome = "suggestions" ->
            [NoSuggestResult EXCEPT !.success = TRUE, !.provider = name,
                                    !.suggestions = n]
      [] outcome = "none" ->
            [NoSuggestResult EXCEPT !.success = TRUE, !.provider = name]
      [] outcome = "failed" -> SuggestFailure(name)
      [] outcome = "failedSilently" -> SuggestFailureNoError(name)
      [] OTHER -> [NoSuggestResult EXCEPT !.provider = name, !.thrown = TRUE]

\* a suggestLinks invocation; invoked and available are history: how often the
\* backend's suggestLinks was called, and what its isAvailable answered
IdleSuggest ==
    [pc |-> "idle", providerName |-> None, registered |-> FALSE,
     available |-> None, invoked |-> 0, result |-> NoSuggestResult]

\* suggestLinks, from entry to the first await or return; registered is
\* history: whether this.aiProviders.get(providerName) found a provider
suggestLinks(aiProviders, providerName) ==
    LET call == [IdleSuggest EXCEPT !.providerName = providerName,
                                    !.registered = providerName \in aiProviders]
    IN IF providerName \notin aiProviders
       THEN [call EXCEPT !.pc = "done", !.result = SuggestFailure(providerName)]
       ELSE [call EXCEPT !.pc = "isAvailable"]

\* a continuation that calls the backend whatever isAvailable answered
onSuggestAvailableIgnored(call, available) ==
    [call EXCEPT !.pc = "suggestLinks", !.invoked = @ + 1,
                 !.available = IF available THEN "yes" ELSE "no"]

\* the continuation of `await provider.isAvailable()`
onSuggestAvailable(call, available) ==
    IF ~available
    THEN [call EXCEPT !.pc = "done", !.available = "no",
                      !.result = SuggestFailure(call.providerName)]
    ELSE [call EXCEPT !.pc = "suggestLinks", !.available = "yes",
                      !.invoked = @ + 1]

SuggestCallers == {"s1", "s2"}

InitSuggest ==
    /\ suggest = [aiProviders |-> {},
                  calls |-> [id \in SuggestCallers |-> IdleSuggest]]
    /\ batch = None
    /\ apply = None
    /\ collected = None
    /\ parsed = None
    /\ now = 0
    /\ cache = <<>>
    /\ CacheGhostsAtRest
    /\ RegistryAtRest
    /\ LinkerAtRest

\* registry.registerAIProvider(provider)
RegisterAIProvider(name) ==
    /\ name \notin suggest.aiProviders
    /\ suggest' = [suggest EXCEPT !.aiProviders = @ \cup {name}]
    /\ UNCHANGED <<batch, apply, collected, parsed, cacheVars, calls,
                   linkerVars>>

\* registry.suggestLinks(providerName, ...) is called
StartSuggest(id, providerName) ==
    /\ suggest.calls[id].pc \in {"idle", "done"}
    /\ suggest' = [suggest EXCEPT !.calls[id] =
                      suggestLinks(suggest.aiProviders, providerName)]
    /\ UNCHANGED <<batch, apply, collected, parsed, cacheVars, calls,
                   linkerVars>>

\* provider.isAvailable() resolves
SuggestAvailableReturns(id, available) ==
    /\ suggest.calls[id].pc = "isAvailable"
    /\ suggest' = [suggest EXCEPT !.calls[id] =
                      onSuggestAvailable(suggest.calls[id], available)]
    /\ UNCHANGED <<batch, apply, collected, parsed, cacheVars, calls,
                   linkerVars>>

\* provider.suggestLinks() settles; its result or rejection is the call's
BackendSuggestReturns(id, outcome, n) ==
    /\ suggest.calls[id].pc = "suggestLinks"
    /\ suggest' = [suggest EXCEPT !.calls[id] =
                      [@ EXCEPT !.pc = "done",
                                !.result = BackendResult(
                                    suggest.calls[id].providerName,
                                    outcome, n)]]
    /\ UNCHANGED <<batch, apply, collected, parsed, cacheVars, calls,
                   linkerVars>>

NextSuggest ==
    \/ \E name \in AIProviders : RegisterAIProvider(name)
    \/ \E id \in SuggestCallers, providerName \in AINames :
          StartSuggest(id, providerName)
    \/ \E id \in SuggestCallers, available \in BOOLEAN :
          SuggestAvailableReturns(id, available)
    \/ \E id \in SuggestCallers, outcome \in BackendOutcomes,
          n \in 1..MaxReturned : BackendSuggestReturns(id, outcome, n)

SpecSuggest == InitSuggest /\ [][NextSuggest]_vars

\* C13: suggestLinks for a backend that is not registered, or whose
\* isAvailable returned false, returns success = false, the requested name as
\* provider, no suggestions and an error message, without calling the backend's
\* suggestLinks and without throwing.
C13_UnknownOrUnavailableBackendFails ==
    \A id \in SuggestCallers :
        LET call == suggest.calls[id] IN
        (call.pc = "done" /\ (~call.registered \/ call.available = "no")) =>
            /\ call.result = SuggestFailure(call.providerName)
            /\ call.invoked = 0

\* a registered backend answered that it is not available, and a backend that
\* is not registered was asked for
C13_UnavailableAndUnknownAsked ==
    \E id, other \in SuggestCallers :
        /\ suggest.calls[id].pc = "done"
        /\ suggest.calls[id].registered
        /\ suggest.calls[id].available = "no"
        /\ suggest.calls[other].pc = "done"
        /\ ~suggest.calls[other].registered

\* ------------------------------------------------------ batchSuggestLinks

\* the most documents a batch holds, and the widest concurrency tried
MaxDocs == 4
MaxWidth == 3

\* options?.maxSuggestions ?? 5 and options?.minConfidence ?? 0.5; confidences
\* are counted in tenths
maxSuggestions == 5
minConfidence == 5

\* one chunk holding every item, whatever the size
chunkWhole(arr, size) == IF arr = <<>> THEN <<>> ELSE <<arr>>

RECURSIVE chunkFrom(_, _, _, _)
\* the reduce of chunk, from index i (counted from 0) on
chunkFrom(chunks, arr, i, size) ==
    IF i >= Len(arr) THEN chunks
    ELSE chunkFrom(IF i % size = 0
                   THEN Append(chunks, <<arr[i + 1]>>)
                   ELSE [chunks EXCEPT ![Len(chunks)] = Append(@, arr[i + 1])],
                   arr, i + 1, size)

\* chunks of the items taken from the last to the first
chunkBackwards(arr, size) ==
    chunkFrom(<<>>, [k \in 1..Len(arr) |-> arr[Len(arr) + 1 - k]], 0, size)

\* chunk(arr, size), size >= 1
chunk(arr, size) == chunkFrom(<<>>, arr, 0, size)

\* a filter that cuts the list before it filters
filterByConfidenceCutFirst(items, min, maxResults) ==
    SelectSeq(Take(items, maxResults), LAMBDA c : c >= min)

\* filterByConfidence; items are the suggestions' confidences
filterByConfidence(items, min, maxResults) ==
    Take(SelectSeq(items, LAMBDA c : c >= min), maxResults)

\* the suggestion lists a backend returns (their confidences, in tenths)
ReturnedLists == {<<>>, <<9>>, <<9, 3>>, <<9, 3, 8, 7, 6, 5, 5>>}

\* how provider.suggestLinks settles for a document: a result with success, a
\* result without success (with or without the optional error field), or a
\* rejection (with an Error whose message is or is not empty)
BatchOutcomes ==
    {"suggestions", "failed", "failedSilently", "throws", "throwsBlank"}

\* the SuggestLinksResult, or the thrown Error; error says whether the result's
\* error field, or the Error's message, is a non-empty string
BatchBackendResult(outcome, list) ==
    [success |-> outcome = "suggestions",
     suggestions |-> IF outcome = "suggestions" THEN list ELSE <<>>,
     error |-> outcome \in {"failed", "throws"},
     thrown |-> outcome \in {"throws", "throwsBlank"}]

NoBatchSuggestion == [filePath |-> 0, suggestions |-> <<>>, error |-> FALSE]

\* processBatchItem after `await provider.suggestLinks(...)`; error is whether
\* the item's error field is a non-empty string
processBatchItem(filePath, r) ==
    IF r.thrown
    THEN [filePath |-> filePath, suggestions |-> <<>>, error |-> r.error]
    ELSE IF ~r.success
         THEN [filePath |-> filePath, suggestions |-> <<>>, error |-> r.error]
         ELSE [filePath |-> filePath,
               suggestions |-> filterByConfidence(r.suggestions, minConfidence,
                                                  maxSuggestions),
               error |-> FALSE]

RECURSIVE totalSuggestionsOf(_)
\* the reduce of aggregateBatchResults on totalSuggestions
totalSuggestionsOf(items) ==
    IF items = <<>> THEN 0
    ELSE totalSuggestionsOf(SubSeq(items, 1, Len(items) - 1))
             + Len(items[Len(items)].suggestions)

\* aggregateBatchResults: what the reduce over the items adds up in each
\* field; an item counts as failed when its error is truthy
aggregateBatchResults(items) ==
    [processed |-> Len(items),
     successful |-> Cardinality({i \in 1..Len(items) : ~items[i].error}),
     failed |-> Cardinality({i \in 1..Len(items) : items[i].error}),
     totalSuggestions |-> totalSuggestionsOf(items)]

\* { ...aggregateBatchResults(allResults), items: allResults }
withItems(counts, items) ==
    [processed |-> counts.processed, successful |-> counts.successful,
     failed |-> counts.failed, totalSuggestions |-> counts.totalSuggestions,
     items |-> items]

NoReport ==
    [processed |-> 0, successful |-> 0, failed |-> 0, totalSuggestions |-> 0,
     items |-> <<>>]

\* a batchSuggestLinks invocation over the documents items (their paths are
\* numbers). batches, at, inflight and batchResults are the loop of
\* processChunksSequentially and the Promise.all it awaits; issued, outcomes,
\* returned and overtaken are history: the backend calls made for each
\* document, how its call settled, the suggestions it returned, and whether a
\* call settled ahead of the call of an earlier document of its chunk.
BatchCall(n, width) ==
    [items |-> [i \in 1..n |-> i], concurrency |-> width, pc |-> "idle",
     batches |-> <<>>, at |-> 0, inflight |-> {},
     batchResults |-> [i \in 1..n |-> NoBatchSuggestion],
     issued |-> [i \in 1..n |-> 0],
     outcomes |-> [i \in 1..n |-> None],
     returned |-> [i \in 1..n |-> <<>>], overtaken |-> FALSE,
     results |-> <<>>, report |-> NoReport]

\* a loop that stops for good once a document of an earlier chunk has failed
enterChunkUnlessFailed(b, k) ==
    IF \E i \in 1..Len(b.results) : b.results[i].error
    THEN [b EXCEPT !.pc = "rejected", !.at = k]
    ELSE IF k > Len(b.batches)
    THEN [b EXCEPT !.pc = "done", !.at = k,
                   !.report = withItems(aggregateBatchResults(b.results),
                                        b.results)]
    ELSE LET issuing == {b.batches[k][j] : j \in 1..Len(b.batches[k])}
         IN [b EXCEPT !.pc = "awaiting", !.at = k,
                      !.inflight = issuing,
                      !.issued = [i \in DOMAIN b.issued |->
                                     IF i \in issuing THEN b.issued[i] + 1
                                     ELSE b.issued[i]]]

\* the for loop of processChunksSequentially arriving at chunk k: every call
\* of the chunk is issued (batch.map(processFn)), or the loop ends and
\* batchSuggestLinks returns the aggregate
enterChunk(b, k) ==
    IF k > Len(b.batches)
    THEN [b EXCEPT !.pc = "done", !.at = k,
                   !.report = withItems(aggregateBatchResults(b.results),
                                        b.results)]
    ELSE LET issuing == {b.batches[k][j] : j \in 1..Len(b.batches[k])}
         IN [b EXCEPT !.pc = "awaiting", !.at = k,
                      !.inflight = issuing,
                      !.issued = [i \in DOMAIN b.issued |->
                                     IF i \in issuing THEN b.issued[i] + 1
                                     ELSE b.issued[i]]]

InitBatch ==
    /\ batch \in {BatchCall(n, width) : n \in 0..MaxDocs, width \in 1..MaxWidth}
    /\ suggest = None
    /\ apply = None
    /\ collected = None
    /\ parsed = None
    /\ now = 0
    /\ cache = <<>>
    /\ CacheGhostsAtRest
    /\ RegistryAtRest
    /\ LinkerAtRest

\* batchSuggestLinks(app, items, provider, vaultContext, options) is called
BatchSuggestLinks ==
    /\ batch.pc = "idle"
    /\ batch' = enterChunk([batch EXCEPT !.batches =
                                chunk(batch.items, batch.concurrency)], 1)
    /\ UNCHANGED <<suggest, apply, collected, parsed, cacheVars, calls,
                   linkerVars>>

\* provider.suggestLinks for document d settles
BackendSettles(d, outcome, list) ==
    /\ batch.pc = "awaiting"
    /\ d \in batch.inflight
    /\ batch' = [batch EXCEPT
                    !.inflight = @ \ {d},
                    !.outcomes[d] = outcome,
                    !.returned[d] =
                        BatchBackendResult(outcome, list).suggestions,
                    !.overtaken = @ \/ \E e \in batch.inflight : e < d,
                    !.batchResults[d] =
                        processBatchItem(d, BatchBackendResult(outcome, list))]
    /\ UNCHANGED <<suggest, apply, collected, parsed, cacheVars, calls,
                   linkerVars>>

\* Promise.all of the chunk resolves: its results are pushed in item order and
\* the loop goes on
ChunkCompletes ==
    /\ batch.pc = "awaiting"
    /\ batch.inflight = {}
    /\ LET this == batch.batches[batch.at]
           batchResults == [j \in 1..Len(this) |-> batch.batchResults[this[j]]]
       IN batch' = enterChunk([batch EXCEPT !.results = @ \o batchResults],
                              batch.at + 1)
    /\ UNCHANGED <<suggest, apply, collected, parsed, cacheVars, calls,
                   linkerVars>>

NextBatch ==
    \/ BatchSuggestLinks
    \/ \E d \in 1..MaxDocs, outcome \in BatchOutcomes, list \in ReturnedLists :
          BackendSettles(d, outcome, list)
    \/ ChunkCompletes

SpecBatch == InitBatch /\ [][NextBatch]_vars

\* the chunk (counted from 0) the document at place d of the input is in
ChunkOf(d) == (d - 1) \div batch.concurrency

Settled(d) == batch.outcomes[d] # None

\* C14: with width W >= 1, at most W backend calls are in flight at any
\* moment, and no call for a document of a later chunk is issued before every
\* call of the chunks before it has settled, however it settled.
C14_ChunksSequentialWidthBounded ==
    /\ Cardinality(batch.inflight) <= batch.concurrency
    /\ \A d, e \in 1..Len(batch.items) :
          (ChunkOf(d) < ChunkOf(e) /\ (e \in batch.inflight \/ Settled(e)))
              => Settled(d)

\* the second chunk is in flight, at full width, after a first chunk in
\* which one call threw and another returned a failure
C14_SecondChunkAfterFailures ==
    /\ batch.pc = "awaiting"
    /\ batch.at = 2
    /\ batch.concurrency >= 2
    /\ Cardinality(batch.inflight) = batch.concurrency
    /\ \E d, e \in 1..Len(batch.items) :
          /\ batch.outcomes[d] = "throws"
          /\ batch.outcomes[e] = "failed"

\* the documents whose backend call failed
Failing ==
    {d \in 1..Len(batch.items) : batch.outcomes[d] # "suggestions"}

\* C15: whichever documents' backend calls fail (by throwing, or by a result
\* with success = false), batchSuggestLinks returns processed = N,
\* failed = |F| and successful = N - |F|, and the items that carry an error are
\* exactly the documents of F.
C15_FailuresCountedPerDocument ==
    batch.pc = "done" =>
        /\ batch.report.processed = Len(batch.items)
        /\ batch.report.failed = Cardinality(Failing)
        /\ batch.report.successful = Len(batch.items) - Cardinality(Failing)
        /\ \A k \in 1..Len(batch.report.items) :
              batch.report.items[k].error
                  <=> batch.report.items[k].filePath \in Failing

\* -------------------------------------------------------- batchApplyLinks

\* the most items a suggest-phase result holds when it is applied
MaxApply == 2

\* a path of the vault: whether it resolves to a markdown file, and its text
NoDoc == [exists |-> FALSE, content |-> <<>>]
DocContents == {<<"a">>, <<"a", " ", "a">>, <<" ">>}
Docs == {NoDoc} \cup {[exists |-> TRUE, content |-> c] : c \in DocContents}

\* the suggestions an item of the suggest phase carries
ItemSuggestions == {<<>>, <<toA>>}

\* an ApplyItemResult; error is None where the field is absent
ApplyItemResult(filePath, inserted, skipped, error) ==
    [filePath |-> filePath, inserted |-> inserted, skipped |-> skipped,
     error |-> error]

NoApplyItem == ApplyItemResult(0, 0, 0, None)

\* a task of Promise.all: where applyLinksToItem is suspended, the
\* InsertResult it holds across `await app.vault.modify`, and its result
IdleTask == [pc |-> "idle", newContent |-> <<>>, result |-> NoApplyItem]

TaskDone(r) == [IdleTask EXCEPT !.pc = "done", !.result = r]

\* an applyLinksToItem that resolves the path before it looks at the
\* suggestions
applyLinksToItemPathFirst(vault, item) ==
    IF ~vault[item.filePath].exists
    THEN TaskDone(ApplyItemResult(item.filePath, 0, 0, "File not found"))
    ELSE IF Len(item.suggestions) = 0
         THEN TaskDone(ApplyItemResult(item.filePath, 0, 0, None))
         ELSE [IdleTask EXCEPT !.pc = "read"]

\* applyLinksToItem, from entry to `await app.vault.read(file)` or a return
applyLinksToItem(vault, item) ==
    IF Len(item.suggestions) = 0
    THEN TaskDone(ApplyItemResult(item.filePath, 0, 0, None))
    ELSE IF ~vault[item.filePath].exists
         THEN TaskDone(ApplyItemResult(item.filePath, 0, 0, "File not found"))
         ELSE [IdleTask EXCEPT !.pc = "read"]

\* the InsertResult reported as the item's result
Reported(item, insertResult) ==
    ApplyItemResult(item.filePath, insertResult.insertedLinks,
                    insertResult.skippedLinks, None)

\* a write-back that happens in dry-run mode too
writeBackAlways(item, insertResult, dryRun) ==
    IF insertResult.insertedLinks > 0
    THEN [pc |-> "modify", newContent |-> insertResult.newContent,
          result |-> Reported(item, insertResult)]
    ELSE TaskDone(Reported(item, insertResult))

\* applyLinksToItem from the InsertResult on: pc "modify" is the task
\* suspended at `await app.vault.modify(file, insertResult.newContent)`
writeBack(item, insertResult, dryRun) ==
    IF insertResult.insertedLinks > 0 /\ ~dryRun
    THEN [pc |-> "modify", newContent |-> insertResult.newContent,
          result |-> Reported(item, insertResult)]
    ELSE TaskDone(Reported(item, insertResult))

\* the continuation of `await app.vault.read(file)`: the read threw, or gave
\* the text
onRead(item, thrown, text, firstMatchOnly, dryRun) ==
    IF thrown
    THEN TaskDone(ApplyItemResult(item.filePath, 0, 0, "thrown"))
    ELSE writeBack(item,
                   insertLinks(text, item.suggestions,
                       [DefaultOptions EXCEPT
                           !.firstMatchOnly = firstMatchOnly]),
                   dryRun)

\* the continuation of `await app.vault.modify(file, newContent)`
onModify(task, thrown) ==
    IF thrown
    THEN TaskDone(ApplyItemResult(task.result.filePath, 0, 0, "thrown"))
    ELSE TaskDone(task.result)

RECURSIVE aggregateApplyResults(_)
\* aggregateApplyResults: the reduce over the items
aggregateApplyResults(items) ==
    IF items = <<>>
    THEN [processed |-> 0, modified |-> 0, skipped |-> 0, totalInserted |-> 0]
    ELSE LET acc == aggregateApplyResults(SubSeq(items, 1, Len(items) - 1))
             item == items[Len(items)]
         IN [processed |-> acc.processed + 1,
             modified |-> acc.modified + (IF item.inserted > 0 THEN 1 ELSE 0),
             skipped |-> acc.skipped
                 + (IF item.inserted = 0 /\ item.error = None THEN 1 ELSE 0),
             totalInserted |-> acc.totalInserted + item.inserted]

NoApplyReport ==
    [processed |-> 0, modified |-> 0, skipped |-> 0, totalInserted |-> 0,
     items |-> <<>>]

\* a batchApplyLinks invocation over a vault. before, reads and writes are
\* history: the vault when the call was made, and the paths app.vault.read
\* and app.vault.modify were called for.
ApplyCall(vault, suggs, firstMatchOnly, dryRun) ==
    [vault |-> vault, before |-> vault,
     items |-> [i \in 1..Len(suggs) |->
                   [filePath |-> i, suggestions |-> suggs[i]]],
     firstMatchOnly |-> firstMatchOnly, dryRun |-> dryRun, pc |-> "idle",
     tasks |-> [i \in 1..Len(suggs) |-> IdleTask],
     reads |-> {}, writes |-> {}, report |-> NoApplyReport]

InitApply ==
    /\ apply \in {ApplyCall(vault, suggs, f, d) :
                    vault \in UNION {[1..n -> Docs] : n \in 0..MaxApply},
                    suggs \in UNION {[1..n -> ItemSuggestions] :
                                        n \in 0..MaxApply},
                    f \in BOOLEAN, d \in BOOLEAN}
    /\ Len(apply.vault) = Len(apply.items)
    /\ suggest = None
    /\ batch = None
    /\ collected = None
    /\ parsed = None
    /\ now = 0
    /\ cache = <<>>
    /\ CacheGhostsAtRest
    /\ RegistryAtRest
    /\ LinkerAtRest

\* batchApplyLinks(app, batchResult, options) is called: every task runs to
\* its first await
BatchApplyLinks ==
    /\ apply.pc = "idle"
    /\ LET tasks == [i \in 1..Len(apply.items) |->
                        applyLinksToItem(apply.vault, apply.items[i])]
       IN apply' = [apply EXCEPT
                       !.pc = "running",
                       !.tasks = tasks,
                       !.reads = {i \in 1..Len(tasks) : tasks[i].pc = "read"}]
    /\ UNCHANGED <<suggest, batch, collected, parsed, cacheVars, calls,
                   linkerVars>>

\* app.vault.read(file) settles for item i
ReadSettles(i, thrown) ==
    /\ apply.pc = "running"
    /\ i \in 1..Len(apply.items)
    /\ apply.tasks[i].pc = "read"
    /\ LET task == onRead(apply.items[i], thrown, apply.vault[i].content,
                          apply.firstMatchOnly, apply.dryRun)
       IN apply' = [apply EXCEPT
                       !.tasks[i] = task,
                       !.writes = IF task.pc = "modify" THEN @ \cup {i} ELSE @]
    /\ UNCHANGED <<suggest, batch, collected, parsed, cacheVars, calls,
                   linkerVars>>

\* app.vault.modify(file, newContent) settles for item i
ModifySettles(i, thrown) ==
    /\ apply.pc = "running"
    /\ i \in 1..Len(apply.items)
    /\ apply.tasks[i].pc = "modify"
    /\ apply' = [apply EXCEPT
                    !.tasks[i] = onModify(apply.tasks[i], thrown),
                    !.vault[i].content =
                        IF thrown THEN @ ELSE apply.tasks[i].newContent]
    /\ UNCHANGED <<suggest, batch, collected, parsed, cacheVars, calls,
                   linkerVars>>

\* Promise.all resolves and batchApplyLinks returns
ApplyCompletes ==
    /\ apply.pc = "running"
    /\ \A i \in 1..Len(apply.items) : apply.tasks[i].pc = "done"
    /\ LET results == [i \in 1..Len(apply.items) |-> apply.tasks[i].result]
           sums == aggregateApplyResults(results)
       IN apply' = [apply EXCEPT
                       !.pc = "done",
                       !.report = [processed |-> sums.processed,
                                   modified |-> sums.modified,
                                   skipped |-> sums.skipped,
                                   totalInserted |-> sums.totalInserted,
                                   items |-> results]]
    /\ UNCHANGED <<suggest, batch, collected, parsed, cacheVars, calls,
                   linkerVars>>

NextApply ==
    \/ BatchApplyLinks
    \/ \E i \in 1..MaxApply, thrown \in BOOLEAN : ReadSettles(i, thrown)
    \/ \E i \in 1..MaxApply, thrown \in BOOLEAN : ModifySettles(i, thrown)
    \/ ApplyCompletes

SpecApply == InitApply /\ [][NextApply]_vars

\* what insertLinks makes of item i's document as it was when
\* batchApplyLinks was called
InsertedInto(i) ==
    insertLinks(apply.before[i].content, apply.items[i].suggestions,
                [DefaultOptions EXCEPT !.firstMatchOnly = apply.firstMatchOnly])

\* C16: with dryRun = true batchApplyLinks issues no write for any document,
\* in every interleaving of the tasks, and still reports each document's
\* inserted and skipped counts; with dryRun = false a document is written only
\* if at least one link was inserted into it.
C16_DryRunWritesNothing ==
    /\ apply.dryRun => (apply.writes = {} /\ apply.vault = apply.before)
    /\ \A i \in apply.writes : InsertedInto(i).insertedLinks > 0
    /\ (apply.pc = "done" /\ apply.dryRun) =>
          \A i \in 1..Len(apply.items) :
              (i \in apply.reads /\ apply.report.items[i].error = None) =>
                  /\ apply.report.items[i].inserted
                        = InsertedInto(i).insertedLinks
                  /\ apply.report.items[i].skipped
                        = InsertedInto(i).skippedLinks

\* a dry run over two documents reported a link for one of them, and a
\* skipped match
C16_DryRunReportsCounts ==
    /\ apply.pc = "done"
    /\ apply.dryRun
    /\ Len(apply.items) = 2
    /\ apply.reads = {1, 2}
    /\ \E i \in 1..Len(apply.items) :
          /\ apply.report.items[i].inserted > 0
          /\ apply.report.items[i].skipped > 0

\* an item without suggestions is reported untouched and its document is
\* neither read nor written
ZeroSuggestionsUntouched(i) ==
    Len(apply.items[i].suggestions) = 0 =>
        /\ apply.report.items[i] = ApplyItemResult(i, 0, 0, None)
        /\ i \notin apply.reads
        /\ i \notin apply.writes

escapeDots(pattern) ==
    [i \in 1..Len(pattern) |-> IF pattern[i] = "." THEN "\\." ELSE pattern[i]]

RECURSIVE markDoubleStars(_)
\* .replace(/\*\*/g, "{{DOUBLESTAR}}"): leftmost pairs first
markDoubleStars(pattern) ==
    IF Len(pattern) < 2 THEN pattern
    ELSE IF pattern[1] = "*" /\ pattern[2] = "*"
         THEN <<"{{DOUBLESTAR}}">>
                  \o markDoubleStars(SubSeq(pattern, 3, Len(pattern)))
         ELSE <<pattern[1]>> \o markDoubleStars(Tail(pattern))

\* .replace(/\*/g, "[^/]*") and .replace(/{{DOUBLESTAR}}/g, ".*")
replaceStars(pattern) ==
    [i \in 1..Len(pattern) |->
        IF pattern[i] = "*" THEN "[^/]*"
        ELSE IF pattern[i] = "{{DOUBLESTAR}}" THEN ".*"
        ELSE pattern[i]]

\* regexPattern of matchGlob, as the sequence of the regular expression's atoms
regexPattern(pattern) == replaceStars(markDoubleStars(escapeDots(pattern)))

RECURSIVE regexTest(_, _)
\* new RegExp(`^${regexPattern}$`).test(path)
regexTest(re, path) ==
    IF re = <<>> THEN path = <<>>
    ELSE IF Head(re) = ".*"
         THEN \E k \in 0..Len(path) :
                 regexTest(Tail(re), SubSeq(path, k + 1, Len(path)))
    ELSE IF Head(re) = "[^/]*"
         THEN \E k \in 0..Len(path) :
                 /\ \A i \in 1..k : path[i] # "/"
                 /\ regexTest(Tail(re), SubSeq(path, k + 1, Len(path)))
    ELSE /\ path # <<>>
         /\ Head(path) = (IF Head(re) = "\\." THEN "." ELSE Head(re))
         /\ regexTest(Tail(re), Tail(path))

matchGlob(path, pattern) == regexTest(regexPattern(pattern), path)

matchesAnyPattern(path, patterns) ==
    \E k \in 1..Len(patterns) : matchGlob(path, patterns[k])

\* the vault's root folder
VaultRoot == <<"/">>

\* what a vault may hold, parents before children: a path, the folder it is
\* in, and whether it is a folder, a markdown file or another file
Nodes ==
    <<[path |-> <<"a", ".", "m", "d">>, parent |-> VaultRoot, kind |-> "md"],
      [path |-> <<"n">>, parent |-> VaultRoot, kind |-> "folder"],
      [path |-> <<"n", "/", "a", ".", "m", "d">>, parent |-> <<"n">>,
       kind |-> "md"],
      [path |-> <<"n", "/", "b", ".", "p">>, parent |-> <<"n">>,
       kind |-> "other"],
      [path |-> <<"n", "/", "x">>, parent |-> <<"n">>, kind |-> "folder"],
      [path |-> <<"n", "/", "x", "/", "a", ".", "m", "d">>,
       parent |-> <<"n", "/", "x">>, kind |-> "md"]>>

\* the vaults: the sets of nodes that hold the folder of every node they hold
Vaults ==
    {v \in SUBSET (1..Len(Nodes)) :
        \A i \in v : \/ Nodes[i].parent = VaultRoot
                     \/ \E j \in v : /\ Nodes[j].path = Nodes[i].parent
                                      /\ Nodes[j].kind = "folder"}

isMarkdownFile(child) == child.kind = "md"
isFolder(child) == child.kind = "folder"

\* folder.children
children(vault, folderPath) ==
    SelectSeq(Nodes, LAMBDA n :
        /\ n.parent = folderPath
        /\ \E i \in vault : Nodes[i] = n)

RECURSIVE collectFilesRecursive(_, _, _, _)
RECURSIVE collectChildren(_, _, _, _)
\* the map over folder.children and results.flat(): the paths of the
\* BatchItems, in the children's order
collectChildren(vault, kids, excludePatterns, includePatterns) ==
    IF kids = <<>> THEN <<>>
    ELSE LET child == Head(kids)
             items ==
                 IF isFolder(child)
                 THEN IF matchesAnyPattern(child.path, excludePatterns)
                      THEN <<>>
                      ELSE collectFilesRecursive(vault, child.path,
                               excludePatterns, includePatterns)
                 ELSE IF ~isMarkdownFile(child) THEN <<>>
                 ELSE IF matchesAnyPattern(child.path, excludePatterns)
                      THEN <<>>
                 ELSE IF Len(includePatterns) > 0
                         /\ ~matchesAnyPattern(child.path, includePatterns)
                      THEN <<>>
                 ELSE <<child.path>>
         IN items \o collectChildren(vault, Tail(kids), excludePatterns,
                                     includePatterns)

collectFilesRecursive(vault, folderPath, excludePatterns, includePatterns) ==
    collectChildren(vault, children(vault, folderPath), excludePatterns,
                    includePatterns)

\* options?.includePatterns ?? ["*.md"]
DefaultIncludePatterns == <<<<"*", ".", "m", "d">>>>

\* the include list collectFilesFromFolder works with
IncludePatternsOr(given, patterns) ==
    IF given THEN patterns ELSE DefaultIncludePatterns

\* collectFilesFromFolder: thrown where the path is no folder of the vault
collectFilesFromFolder(vault, folderPath, excludePatterns, given, patterns) ==
    IF folderPath # VaultRoot
       /\ ~\E i \in vault : Nodes[i].path = folderPath /\ isFolder(Nodes[i])
    THEN [thrown |-> TRUE, items |-> <<>>]
    ELSE [thrown |-> FALSE,
          items |-> collectFilesRecursive(vault, folderPath, excludePatterns,
                        IncludePatternsOr(given, patterns))]

\* the folders asked for, and the exclude and include lists given
FolderPaths == {VaultRoot, <<"n">>, <<"n", "/", "x">>, <<"z">>}

ExcludeLists ==
    {<<>>,
     <<<<"n", "/", "x">>>>,
     <<<<"n", "/", "*">>>>,
     <<<<"*", "*", "/", "a", ".", "m", "d">>>>,
     <<<<"n", "/", "x", "/", "*", "*">>>>}

IncludeLists ==
    {<<<<"*", "*", "/", "*", ".", "m", "d">>>>,
     <<<<"n", "/", "*", ".", "m", "d">>>>}

\* a collectFilesFromFolder invocation; includeGiven says whether
\* options.includePatterns was given
CollectCall(vault, folderPath, excludePatterns, includeGiven, includePatterns) ==
    [vault |-> vault, folderPath |-> folderPath,
     excludePatterns |-> excludePatterns, includeGiven |-> includeGiven,
     includePatterns |-> includePatterns, pc |-> "idle",
     thrown |-> FALSE, items |-> <<>>]

InitCollect ==
    /\ collected \in
          {CollectCall(v, f, e, FALSE, <<>>) :
               v \in Vaults, f \in FolderPaths, e \in ExcludeLists}
          \cup {CollectCall(v, f, e, TRUE, i) :
                   v \in Vaults, f \in FolderPaths, e \in ExcludeLists,
                   i \in IncludeLists}
    /\ suggest = None
    /\ batch = None
    /\ apply = None
    /\ parsed = None
    /\ now = 0
    /\ cache = <<>>
    /\ CacheGhostsAtRest
    /\ RegistryAtRest
    /\ LinkerAtRest

\* collectFilesFromFolder(app, folderPath, options) runs
CollectFilesFromFolder ==
    /\ collected.pc = "idle"
    /\ LET got == collectFilesFromFolder(collected.vault, collected.folderPath,
                      collected.excludePatterns, collected.includeGiven,
                      collected.includePatterns)
       IN collected' = [collected EXCEPT !.pc = "done",
                                         !.thrown = got.thrown,
                                         !.items = got.items]
    /\ UNCHANGED <<suggest, batch, apply, parsed, cacheVars, calls,
                   linkerVars>>

NextCollect == CollectFilesFromFolder

SpecCollect == InitCollect /\ [][NextCollect]_vars

\* whether the node at path is under the folder at root, at any depth
IsUnder(path, root) ==
    \/ root = VaultRoot
    \/ /\ Len(path) > Len(root) + 1
       /\ SubSeq(path, 1, Len(root)) = root
       /\ path[Len(root) + 1] = "/"

\* the markdown documents under the root folder whose own path and whose
\* folders' paths below the root match no exclude pattern
Collectable ==
    {Nodes[i].path : i \in
        {i \in collected.vault :
            /\ isMarkdownFile(Nodes[i])
            /\ IsUnder(Nodes[i].path, collected.folderPath)
            /\ ~matchesAnyPattern(Nodes[i].path, collected.excludePatterns)
            /\ \A j \in collected.vault :
                  (/\ isFolder(Nodes[j])
                   /\ IsUnder(Nodes[i].path, Nodes[j].path)
                   /\ IsUnder(Nodes[j].path, collected.folderPath))
                      => ~matchesAnyPattern(Nodes[j].path,
                                            collected.excludePatterns)}}

\* C18: called without an include list, collectFilesFromFolder collects every
\* markdown document at any depth under the root folder whose own path and
\* whose ancestor folders' paths match no exclude pattern, and no other.
C18_CollectsEveryDocumentNotExcluded ==
    (collected.pc = "done" /\ ~collected.includeGiven /\ ~collected.thrown) =>
        {collected.items[k] : k \in 1..Len(collected.items)} = Collectable

\* ----------------------------------------------------------- parseResponse

\* the most suggestions a response holds
MaxRaw == 3

\* the confidence 1; confidences are counted in tenths
ConfidenceOne == 10

\* an entry of the response's suggestions array: its target ("" where it is
\* missing or empty), whether its confidence is a number, and the number
RawSuggestion(target, isNumber, confidence) ==
    [target |-> target, isNumber |-> isNumber, confidence |-> confidence]

RawSuggestions ==
    {RawSuggestion("", TRUE, 5), RawSuggestion("t", FALSE, 0)}
    \cup {RawSuggestion("t", TRUE, c) : c \in {-5, 0, 3, ConfidenceOne, 15}}

\* the responses: text that JSON.parse rejects, an object without a
\* suggestions array, and objects with one
Responses ==
    {[kind |-> "unparsable", suggestions |-> <<>>],
     [kind |-> "noArray", suggestions |-> <<>>]}
    \cup {[kind |-> "array", suggestions |-> raw] :
             raw \in UNION {[1..n -> RawSuggestions] : n \in 0..MaxRaw}}

\* a clamp that bounds the confidence from above only
clampConfidenceAbove(confidence) ==
    IF ConfidenceOne < confidence THEN ConfidenceOne ELSE confidence

\* Math.max(0, Math.min(1, s.confidence))
clampConfidence(confidence) ==
    LET least == IF ConfidenceOne < confidence THEN ConfidenceOne
                 ELSE confidence
    IN IF 0 > least THEN 0 ELSE least

RECURSIVE sortByConfidence(_)
\* .sort((a, b) => b.confidence - a.confidence): a stable sort
sortByConfidence(items) ==
    IF items = <<>> THEN <<>>
    ELSE LET last == items[Len(items)]
             front == sortByConfidence(SubSeq(items, 1, Len(items) - 1))
             before == SelectSeq(front,
                          LAMBDA x : x.confidence >= last.confidence)
             after == SelectSeq(front,
                          LAMBDA x : x.confidence < last.confidence)
         IN before \o <<last>> \o after

\* the filter, map and sort both parseResponse methods apply to the array
toLinkSuggestions(raw) ==
    LET kept == SelectSeq(raw, LAMBDA x : x.target # "" /\ x.isNumber)
    IN sortByConfidence(
           [k \in 1..Len(kept) |->
               [targetNote |-> kept[k].target,
                confidence |-> clampConfidence(kept[k].confidence)]])

\* OllamaProvider.parseResponse
OllamaProvider_parseResponse(response) ==
    IF response.kind # "array" THEN <<>>
    ELSE toLinkSuggestions(response.suggestions)

\* OpenAIProvider.parseResponse
OpenAIProvider_parseResponse(response) ==
    IF response.kind # "array" THEN <<>>
    ELSE toLinkSuggestions(response.suggestions)

InitParse ==
    /\ parsed \in {[response |-> r, pc |-> "idle", provider |-> None,
                    suggestions |-> <<>>] : r \in Responses}
    /\ suggest = None
    /\ batch = None
    /\ apply = None
    /\ collected = None
    /\ now = 0
    /\ cache = <<>>
    /\ CacheGhostsAtRest
    /\ RegistryAtRest
    /\ LinkerAtRest

\* OllamaProvider.parseResponse(response) runs
ParseOllama ==
    /\ parsed.pc = "idle"
    /\ parsed' = [parsed EXCEPT
                     !.pc = "done", !.provider = "ollama",
                     !.suggestions =
                         OllamaProvider_parseResponse(parsed.response)]
    /\ UNCHANGED <<suggest, batch, apply, collected, cacheVars, calls,
                   linkerVars>>

\* OpenAIProvider.parseResponse(response) runs
ParseOpenAI ==
    /\ parsed.pc = "idle"
    /\ parsed' = [parsed EXCEPT
                     !.pc = "done", !.provider = "openai",
                     !.suggestions =
                         OpenAIProvider_parseResponse(parsed.response)]
    /\ UNCHANGED <<suggest, batch, apply, collected, cacheVars, calls,
                   linkerVars>>

NextParse == ParseOllama \/ ParseOpenAI

SpecParse == InitParse /\ [][NextParse]_vars

\* the confidence a raw value is to become
Clamped(c) == IF c < 0 THEN 0 ELSE IF c > ConfidenceOne THEN ConfidenceOne ELSE c

\* the raw entries that are suggestions: a target and a numeric confidence
Usable ==
    {k \in 1..Len(parsed.response.suggestions) :
        /\ parsed.response.suggestions[k].target # ""
        /\ parsed.response.suggestions[k].isNumber}

\* C19: every suggestion the backends' response parsing returns has its
\* confidence within [0, 1] (below 0 becomes 0, above 1 becomes 1, inside
\* unchanged), and the list is in non-increasing confidence order.
C19_ConfidenceClampedAndSorted ==
    parsed.pc = "done" =>
        LET out == parsed.suggestions IN
        /\ \A k \in 1..Len(out) :
              /\ 0 <= out[k].confidence
              /\ out[k].confidence <= ConfidenceOne
        /\ \A k \in 1..(Len(out) - 1) :
              out[k].confidence >= out[k + 1].confidence
        /\ Len(out) = Cardinality(Usable)
        /\ \A c \in {Clamped(parsed.response.suggestions[k].confidence) :
                        k \in Usable} :
              Cardinality({k \in 1..Len(out) : out[k].confidence = c})
                  = Cardinality({k \in Usable :
                        Clamped(parsed.response.suggestions[k].confidence)
                            = c})

\* a response with a confidence below 0, one above 1 and one inside, given
\* in ascending order
C19_OutOfRangeAndUnsorted ==
    /\ parsed.pc = "done"
    /\ Len(parsed.suggestions) = 3
    /\ parsed.response.suggestions[1].confidence < 0
    /\ parsed.response.suggestions[2].confidence = 3
    /\ parsed.response.suggestions[3].confidence > ConfidenceOne

\* --------------------------------------------------- the linker's counts

RECURSIVE CountMatches(_)
\* the occurrences a list of LinkMatch holds, over all its suggestions
CountMatches(linkMatches) ==
    IF linkMatches = <<>> THEN 0
    ELSE Len(Head(linkMatches).matches) + CountMatches(Tail(linkMatches))

\* C20: for every insertLinks call, insertedLinks + skippedLinks equals the
\* number of occurrences findLinkableMatches finds, summed over all
\* suggestions, and insertedLinks equals the number of entries in changes.
C20_InsertedPlusSkippedIsCandidates ==
    phase = "inserted" =>
        /\ result.insertedLinks + result.skippedLinks
               = CountMatches(findLinkableMatches(content, suggestions))
        /\ result.insertedLinks = Len(result.changes)

\* a call that inserts links for two suggestions and leaves occurrences out
C20_SomeInsertedSomeSkipped ==
    /\ phase = "inserted"
    /\ result.insertedLinks >= 2
    /\ result.skippedLinks >= 1
    /\ Len(suggestions) >= 2

\* ------------------------------------------------ the linker's selection

\* the matches found for the call in the state
Found == findLinkableMatches(content, suggestions)

\* the number of occurrences to link per suggestion
Allowed(k) ==
    LET n == IF options.firstMatchOnly THEN 1 ELSE options.maxPerNote
    IN IF Len(Found[k].matches) < n THEN Len(Found[k].matches) ELSE n

RECURSIVE AllowedBefore(_)
\* the occurrences linked for the suggestions ahead of the k-th
AllowedBefore(k) == IF k <= 1 THEN 0 ELSE Allowed(k - 1) + AllowedBefore(k - 1)

\* C21: with firstMatchOnly, insertLinks links at most one occurrence per
\* suggestion, the first in line order, whatever maxPerNote is; without it,
\* at most maxPerNote occurrences per suggestion, the first ones in line
\* order.
C21_FirstOccurrencesPerSuggestion ==
    phase = "inserted" =>
        /\ Len(result.selected) = AllowedBefore(Len(Found) + 1)
        /\ \A k \in 1..Len(Found) :
              /\ \A i \in 1..(Len(Found[k].matches) - 1) :
                    Found[k].matches[i].index < Found[k].matches[i + 1].index
              /\ \A i \in 1..Allowed(k) :
                    result.selected[AllowedBefore(k) + i]
                        = [suggestion |-> Found[k].suggestion,
                           match |-> Found[k].matches[i]]

\* first match only with maxPerNote 2: a suggestion with two occurrences
\* gets its first one linked
C21_FirstOnlyDespiteMaxPerNote ==
    /\ phase = "inserted"
    /\ options.firstMatchOnly
    /\ options.maxPerNote = 2
    /\ Len(Found) >= 1
    /\ Len(Found[1].matches) >= 2
    /\ result.insertedLinks >= 1

\* ---------------------------------------------- the order of the changes

\* the selected matches, by ascending offset in the original
AscendingSelected ==
    Reverse(sortDescending(result.selected))

\* C22: the changes of an InsertResult are in non-decreasing line order, the
\* order of ascending offset in the original text, one change per selected
\* match.
C22_ChangesInAscendingLineOrder ==
    phase = "inserted" =>
        /\ Len(result.changes) = Len(result.selected)
        /\ \A k \in 1..(Len(result.changes) - 1) :
              /\ result.changes[k].line <= result.changes[k + 1].line
              /\ AscendingSelected[k].match.index
                     <= AscendingSelected[k + 1].match.index
        /\ \A k \in 1..Len(result.changes) :
              /\ result.changes[k].line = AscendingSelected[k].match.line
              /\ result.changes[k].targetNote
                     = AscendingSelected[k].suggestion.targetNote
              /\ result.changes[k].originalText
                     = AscendingSelected[k].match.text

\* the first suggestion matches on a later line than the second does
C22_SelectedOutOfLineOrder ==
    /\ phase = "inserted"
    /\ Len(result.selected) = 2
    /\ result.selected[1].match.line > result.selected[2].match.line
    /\ result.changes[1].line < result.changes[2].line

\* ------------------------------------------------- the form of the links

\* link is [[target|alias]] for some alias
IsAliasLink(link, target) ==
    /\ Len(link) > Len(target) + 5
    /\ SubSeq(link, 1, Len(target) + 3) = <<"[", "[">> \o target \o <<"|">>
    /\ SubSeq(link, Len(link) - 1, Len(link)) = <<"]", "]">>

\* the k-th change is a link with an alias exactly when aliased, and the
\* bare link otherwise
LinkFormIs(k, aliased) ==
    LET target == AscendingSelected[k].suggestion.targetNote
        link == result.changes[k].linkedText
    IN IF aliased THEN IsAliasLink(link, target) ELSE link = BareLink(target)

MaxLineFrags == 3

\* what the scanned text is written from: words, a blank, a line end, a lone
\* bracket, links to "a" (bare, and with an alias under another case) and a
\* link to another target
LineFrags ==
    {<<"a">>, <<" ">>, <<"\n">>, <<"[">>,
     <<"[", "[", "a", "]", "]">>,
     <<"[", "[", "A", "|", "a", "]", "]">>,
     <<"[", "[", "a", " ", "a", "]", "]">>}

ScannedTexts ==
    {Flatten(f) : f \in UNION {[1..n -> LineFrags] : n \in 0..MaxLineFrags}}

InitFind ==
    /\ content \in ScannedTexts
    /\ suggestions \in {<<toA>>, <<toAA>>, <<toAA, toA>>}
    /\ options = None
    /\ phase = "find"
    /\ result = None
    /\ rerun = None
    /\ now = 0
    /\ cache = <<>>
    /\ CacheGhostsAtRest
    /\ RegistryAtRest
    /\ BatchAtRest

\* findLinkableMatches(content, suggestions)
FindLinkableMatches ==
    /\ phase = "find"
    /\ result' = findLinkableMatches(content, suggestions)
    /\ phase' = "found"
    /\ UNCHANGED <<content, suggestions, options, rerun, cacheVars, calls,
                   batchVars>>

NextFind == FindLinkableMatches

SpecFind == InitFind /\ [][NextFind]_vars

\* the text of line holds, at index i, [[X]] or [[X|alias]] with X equal to
\* target but for the case of its letters
LinkToAt(line, i, target) ==
    LET n == Len(target)
        after == i + 2 + n
    IN /\ after + 2 <= Len(line)
       /\ line[i + 1] = "[" /\ line[i + 2] = "["
       /\ toLowerCase(SubSeq(line, i + 3, after)) = toLowerCase(target)
       /\ \/ line[after + 1] = "]" /\ line[after + 2] = "]"
          \/ /\ line[after + 1] = "|"
             /\ \E e \in (after + 3)..(Len(line) - 1) :
                   /\ line[e] = "]" /\ line[e + 1] = "]"
                   /\ \A x \in (after + 2)..(e - 1) : line[x] # "]"

HoldsLinkTo(line, target) ==
    \E i \in 0..Len(line) : LinkToAt(line, i, target)

\* C24: findLinkableMatches reports no match for a target on a line that
\* holds a link [[X]] or [[X|alias]] with X equal to the target ignoring
\* case; a line that holds no such link has every occurrence of the target
\* that does not start in a link or a code span reported.
C24_NoMatchOnLineLinkedToTarget ==
    phase = "found" =>
        LET lines == split(content) IN
        /\ \A k \in 1..Len(result) : \A i \in 1..Len(result[k].matches) :
              ~HoldsLinkTo(lines[result[k].matches[i].line],
                           result[k].suggestion.targetNote)
        /\ \A s \in 1..Len(suggestions) : \A l \in 1..Len(lines) :
              \A pos \in 0..Len(lines[l]) :
                 (/\ ~HoldsLinkTo(lines[l], suggestions[s].targetNote)
                  /\ pos \in {matchAllFrom(lines[l],
                                  suggestions[s].targetNote, 0)[x] :
                              x \in 1..Len(matchAllFrom(lines[l],
                                  suggestions[s].targetNote, 0))}
                  /\ ~isPositionInLink(lines[l], pos))
                 => \E k \in 1..Len(result) :
                       /\ result[k].suggestion = suggestions[s]
                       /\ \E i \in 1..Len(result[k].matches) :
                             /\ result[k].matches[i].line = l
                             /\ result[k].matches[i].column = pos + 1

\* ------------------------------------------------------ the rewrite loop

RECURSIVE workingTexts(_, _, _)
\* acc.newContent at the start of each iteration of the reduce of
\* applyReplacements over the sorted matches
workingTexts(text, sorted, useDisplayText) ==
    IF sorted = <<>> THEN <<>>
    ELSE <<text>> \o
         workingTexts(
             applySorted([newContent |-> text, changes |-> <<>>],
                         <<Head(sorted)>>, useDisplayText).newContent,
             Tail(sorted), useDisplayText)

\* C25: when a selected match is spliced, the working text at
\* [index, index + length) is still the match's original text, for every
\* selected match.
C25_SpliceSeesOriginalText ==
    phase = "inserted" =>
        LET sorted == sortDescending(result.selected)
            texts == workingTexts(content, sorted, options.useDisplayText)
        IN \A k \in 1..Len(sorted) :
              slice(texts[k], sorted[k].match.index,
                    sorted[k].match.index + sorted[k].match.length)
                  = sorted[k].match.text

\* ------------------------------------------- concurrent registry lookups

\* the lookups in flight at the same time
ConcurrentCallers == {"c1", "c2"}

InitConcurrent ==
    /\ now = 0
    /\ cache = <<>>
    /\ calls = [c \in ConcurrentCallers |-> IdleCall]
    /\ CacheGhostsAtRest
    /\ LinkerAtRest
    /\ BatchAtRest

NextConcurrent ==
    \/ \E id \in ConcurrentCallers, query \in Queries,
          providerType \in ProviderTypes, o \in LookupOptionsChoices :
              StartLookup(id, query, providerType, o)
    \/ \E id \in ConcurrentCallers, available \in BOOLEAN :
          IsAvailableReturns(id, available)
    \/ \E id \in ConcurrentCallers, outcome \in LookupOutcomes :
          LookupReturns(id, outcome)

SpecConcurrent == InitConcurrent /\ [][NextConcurrent]_vars

\* C26: under any interleaving of concurrent lookups that suspend at the
\* providers' isAvailable and lookup calls, the shared cache never holds more
\* than its capacity of entries, holds one entry per key, and never holds a
\* failed result.
C26_SharedCacheBoundedNoFailure ==
    /\ Len(cache) <= MaxSize
    /\ Cardinality(KeysOf(cache)) = Len(cache)
    /\ \A i \in 1..Len(cache) : cache[i].value.success

\* two lookups for the same key both missed, both asked the provider and both
\* stored its result, in a cache that is full
C26_BothMissedSameKeyCacheFull ==
    /\ Len(cache) = MaxSize
    /\ calls["c1"].pc = "done" /\ calls["c2"].pc = "done"
    /\ calls["c1"].key = calls["c2"].key
    /\ calls["c1"].key \in KeysOf(cache)
    /\ \A id \in ConcurrentCallers :
          /\ calls[id].nAsked > 0
          /\ calls[id].result.success
          /\ ~calls[id].result.cached

\* --------------------------------------- what batchSuggestLinks records

\* the places of the suggestions of a returned list that are to be recorded:
\* those of confidence >= minConfidence with fewer than maxSuggestions such
\* places ahead of them
RecordedPlaces(list) ==
    {i \in 1..Len(list) :
        /\ list[i] >= minConfidence
        /\ Cardinality({j \in 1..(i - 1) : list[j] >= minConfidence})
               < maxSuggestions}

\* C27: every suggestion batchSuggestLinks records for a document has
\* confidence >= minConfidence, at most maxSuggestions are recorded, and they
\* are the first maxSuggestions qualifying ones in the order the backend
\* returned them.
C27_RecordsFirstQualifying ==
    batch.pc = "done" =>
        \A d \in 1..Len(batch.report.items) :
            LET recorded == batch.report.items[d].suggestions
                list == batch.returned[batch.report.items[d].filePath]
            IN /\ \A k \in 1..Len(recorded) : recorded[k] >= minConfidence
               /\ Len(recorded) <= maxSuggestions
               /\ Len(recorded) = Cardinality(RecordedPlaces(list))
               /\ \A i \in RecordedPlaces(list) :
                     recorded[Cardinality({j \in RecordedPlaces(list) :
                                              j <= i})] = list[i]

\* a backend returned more qualifying suggestions than maxSuggestions, with
\* one below minConfidence among them
C27_CutAtMaxSuggestions ==
    /\ batch.pc = "done"
    /\ \E d \in 1..Len(batch.report.items) :
          /\ batch.report.items[d].filePath = d
          /\ Len(batch.returned[d]) > maxSuggestions + 1
          /\ \E k \in 1..Len(batch.returned[d]) :
                batch.returned[d][k] < minConfidence
          /\ Len(batch.report.items[d].suggestions) = maxSuggestions

\* ------------------------------------------- batchSuggestLinks completes

\* a step of a batch that has been started: a backend call settles (what it
\* returns on success does not bear on the loop: one list stands for all), or
\* the loop goes on after the calls of a chunk have settled
BatchProgress ==
    \/ \E d \in 1..MaxDocs, outcome \in BatchOutcomes :
          BackendSettles(d, outcome, <<9, 3>>)
    \/ ChunkCompletes

NextBatchLive == BatchSuggestLinks \/ BatchProgress

\* a backend call that is issued settles, and the continuation of the await
\* runs
BatchFairness == WF_vars(BatchProgress)

SpecBatchLive == InitBatch /\ [][NextBatchLive]_vars /\ BatchFairness

\* batchSuggestLinks has returned, after one backend call per document
BatchCompleted ==
    /\ batch.pc = "done"
    /\ \A d \in 1..Len(batch.items) : batch.issued[d] = 1 /\ Settled(d)

\* C28: provided every backend call returns or throws, batchSuggestLinks
\* eventually completes, having issued exactly one backend call for each
\* document, whatever the width and whichever documents fail; no document is
\* ever called for twice.
C28_BatchEventuallyCompletes ==
    /\ (batch.pc # "idle") ~> BatchCompleted
    /\ [](\A d \in 1..Len(batch.items) : batch.issued[d] <= 1)

\* a batch of several chunks has completed although a document of its first
\* chunk threw
C28_CompletedPastThrowingChunk ==
    /\ BatchCompleted
    /\ Len(batch.batches) >= 2
    /\ batch.outcomes[1] = "throws"
    /\ batch.outcomes[Len(batch.items)] = "suggestions"

\* ------------------------------------------------- set of a present key

\* the entry c holds under key (key is present)
EntryOf(c, key) == c[MapGet(c, key)]

\* C29: set of a key that is present replaces that key's value and expiry,
\* removes no other entry and leaves the size unchanged, even in a cache at
\* capacity.
C29_SetOfPresentKeyKeepsOthers ==
    [][(lastOp'.op = "set" /\ lastOp'.key \in KeysOf(cache)) =>
          /\ KeysOf(cache') = KeysOf(cache)
          /\ Len(cache') = Len(cache)
          /\ EntryOf(cache', lastOp'.key).value = stored'[lastOp'.key].value
          /\ EntryOf(cache', lastOp'.key).expiresAt = now + TtlTicks
          /\ \A k \in KeysOf(cache) \ {lastOp'.key} :
                EntryOf(cache', k) = EntryOf(cache, k)]_vars

\* ------------------------------------------- the order of the batch items

\* C30: the items batchSuggestLinks returns correspond one to one to the
\* input documents, in input order, for any width and whatever the order in
\* which the backend calls of a chunk settle.
C30_ItemsInInputOrder ==
    batch.pc = "done" =>
        /\ Len(batch.report.items) = Len(batch.items)
        /\ \A i \in 1..Len(batch.items) :
              /\ batch.report.items[i].filePath = batch.items[i]
              /\ batch.report.items[i]
                     = processBatchItem(batch.items[i],
                           BatchBackendResult(batch.outcomes[i],
                                              batch.returned[i]))

\* a batch has returned in which a call settled ahead of the call of an
\* earlier document of its chunk
C30_SettledOutOfInputOrder ==
    /\ batch.pc = "done"
    /\ batch.overtaken
    /\ Len(batch.items) >= 3
    /\ batch.concurrency = 2

====
